---- MODULE Spec2Model ----
(***************************************************************************)
(* Fetch orchestration and concurrency-safety layer of the lead harvester: *)
(* job tracker, scheduler tick, on-demand trigger, global rate limiter,    *)
(* retrying multi-target fetch and the dedup ledger of the pipeline.       *)
(* Each subsystem has its own specification over the shared variables.     *)
(***************************************************************************)
EXTENDS Integers, Sequences, FiniteSets, TLC

VARIABLES
    now,          \* datetime.utcnow(), in seconds
    advances,     \* number of clock advances taken so far
    active_jobs,  \* JobTracker._active_jobs, keyed by search id
    cleanups,     \* pending _cleanup_job tasks: [s, at]
    db,           \* keyword_searches rows: the run-tracking and scheduling fields
    pc,           \* position of the scheduler tick and of each trigger request
    cur,          \* search a process is running the pipeline for
    snap,         \* KeywordSearchState a run was handed when it started
    result,       \* status of the dict process_keyword_search returns
    due,          \* rest of the tick's due_searches list
    runstart,     \* time of the start_job that began a process's run
    overran,      \* history: a run of the search was in progress past the timeout
    opened,       \* history of the harness: start_job(s) succeeded, no complete_job(s) since
    ret,          \* history: what the last step returned, a tracker call or a refused trigger
    t_log,        \* history of the tick: whether its loop has so far reached every
                  \* search of the list it was at, up to the pipeline it awaits,
                  \* and whether the except block has run in the tick at hand
    clock,        \* time.time(), in tenths of a second
    rl_holder,    \* the caller inside "async with self._lock"
    rl_pc,        \* position of each caller of wait_if_needed
    rl_wake,      \* end of the asyncio.sleep the lock holder is in
    rl_ts,        \* GlobalRedditRateLimiter._request_timestamps
    rl_last,      \* GlobalRedditRateLimiter._last_request_time
    rl_log,       \* history: every timestamp recorded, in order
    rl_idle,      \* number of clock advances taken with no caller asleep
    f_pc,         \* position of the scrape_posts / scrape_with_comments call
    f_fn,         \* which of the two was called
    f_cfg,        \* config["subreddits"]
    f_inc,        \* config["include_comments"]
    f_i,          \* index of the subreddit the loop is at
    f_j,          \* index of the post whose comments are fetched
    f_att,        \* attempts the retry loop at hand has made
    f_acq,        \* _rate_limit() calls the retry loop at hand has made
    f_outs,       \* how the attempts the retry loop at hand has made ended
    f_posts,      \* posts of the subreddit at hand
    f_metrics,    \* the ScrapingMetrics of the subreddit at hand
    all_posts,    \* the all_posts list
    all_comments, \* the all_comments list
    f_recorded,   \* the metrics handed to record_metrics, in order
    f_log,        \* history: per subreddit fetched, how its fetch ended
    f_clog,       \* history: per post whose comments were fetched, how that ended
    f_last,       \* history: the retry loop that ended last
    ledger,       \* scraped_content rows
    leads,        \* leads rows: (search, source_id)
    l_ret,        \* history: the last direct filter_already_scraped call (the n-th
                  \* ledger call): what it returned, and the items it dropped
    l_fm,         \* history: (search, item) returned by a filter call, then marked
    l_ops,        \* number of direct ledger calls made
    p_pc,         \* position of the pipeline run of each search
    p_run,        \* history: the pipeline run that ended last
    p_prev,       \* history: per search, the items its last ended run fetched
    p_runs,       \* number of pipeline runs begun
    lim_pc,       \* position of the run whose limits are enforced
    lim_cfg,      \* keyword_search.reddit_config: limit, comment_limit and the
                  \* number of subreddits listed
    lim_got,      \* number of comments fetched for a post of the run
    m_pc,         \* position of each process inside mark_content_scraped
    m_arg,        \* its arguments, and whether its query found a record
    m_ret,        \* history: how its last call ended
    k_inst,       \* the executor's instances of the process_due_searches job
    k_fired,      \* number of firings of the interval trigger so far
    k_last        \* history: what the executor did with the last firing

jobVars == <<now, advances, active_jobs, cleanups, db, pc, cur, snap, result, due,
             runstart, overran, opened, ret, t_log>>

rlVars == <<clock, rl_holder, rl_pc, rl_wake, rl_ts, rl_last, rl_log, rl_idle>>

fetchVars == <<f_pc, f_fn, f_cfg, f_inc, f_i, f_j, f_att, f_acq, f_outs, f_posts,
               f_metrics, all_posts, all_comments, f_recorded, f_log, f_clog, f_last>>

pipeVars == <<ledger, leads, l_ret, l_fm, l_ops, p_pc, p_run, p_prev, p_runs>>

limVars == <<lim_pc, lim_cfg, lim_got>>

markVars == <<m_pc, m_arg, m_ret>>

timerVars == <<k_inst, k_fired, k_last>>

vars == <<jobVars, rlVars, fetchVars, pipeVars, limVars, markVars, timerVars>>

\* what the actions of one subsystem leave alone
notJobs == <<rlVars, fetchVars, pipeVars, limVars, markVars, timerVars>>
notRl == <<jobVars, fetchVars, pipeVars, limVars, markVars, timerVars>>
notFetch == <<jobVars, rlVars, pipeVars, limVars, markVars, timerVars>>
notPipe == <<jobVars, rlVars, fetchVars, limVars, markVars, timerVars>>
notLim == <<jobVars, rlVars, fetchVars, pipeVars, markVars, timerVars>>
notMark == <<jobVars, rlVars, fetchVars, limVars, leads, l_ret, l_fm, l_ops,
             p_pc, p_run, p_prev, p_runs, timerVars>>
notTimer == <<rlVars, fetchVars, pipeVars, limVars, markVars, advances, pc, cur, snap,
              result, due, runstart, overran, opened, t_log>>

----------------------------------------------------------------------------
(* Bounds of the model *)

MaxAdvance == 3      \* clock advances of the tracker harness
SchedAdvance == 1    \* clock advances of the scheduler specification

(* Program constants *)

JobTimeout == 7200
CleanupDelay == 300
CooldownMinutes == 5
SecondsPerMinute == 60

None == 0 - 1
Searches == {"s1", "s2"}
NoSearch == "none"
Requests == {"r1"}
Procs == {"tick"} \cup Requests
NoRet == [op |-> "none", s |-> NoSearch, val |-> "none"]

\* clock steps of the tracker harness (they reach the cooldown and the timeout
\* exactly, and one second before and after) and of the scheduler
TimeSteps == {1, CleanupDelay - 1, JobTimeout}
SchedSteps == {CleanupDelay, JobTimeout + 1}

----------------------------------------------------------------------------
(* Job tracker *)

NoJob == [status |-> "absent", started_at |-> None, error |-> "none"]

\* the timeout test with >= in place of >
StaleInclusive(job, t) ==
    /\ job.status \in {"running", "starting"}
    /\ job.started_at # None
    /\ t - job.started_at >= JobTimeout

\* is_job_running: the job is active and elapsed > 7200
Stale(job, t) ==
    /\ job.status \in {"running", "starting"}
    /\ job.started_at # None
    /\ t - job.started_at > JobTimeout

\* _mark_job_failed
MarkJobFailed(jobs, s, err) ==
    IF jobs[s].status # "absent"
    THEN [jobs EXCEPT ![s].status = "failed", ![s].error = err]
    ELSE jobs

\* is_job_running with the status test narrowed to "starting"
IsJobRunningStartingOnly(jobs, s, t) ==
    /\ jobs[s].status = "starting"
    /\ ~Stale(jobs[s], t)

\* is_job_running: the value it returns
IsJobRunning(jobs, s, t) ==
    /\ jobs[s].status \in {"running", "starting"}
    /\ ~Stale(jobs[s], t)

\* is_job_running that leaves a stale job as it is
IsJobRunningJobsNoReap(jobs, s, t) == jobs

\* is_job_running: the job table it leaves
IsJobRunningJobs(jobs, s, t) ==
    IF Stale(jobs[s], t) THEN MarkJobFailed(jobs, s, "timeout") ELSE jobs

\* can_start_job with the cooldown test inclusive: <= in place of <
CanStartJobInclusive(jobs, rows, s, t) ==
    IF IsJobRunning(jobs, s, t) THEN "running"
    ELSE IF /\ rows[s].last_scrape_at # None
            /\ t - rows[s].last_scrape_at <= CooldownMinutes * SecondsPerMinute
         THEN "cooldown"
         ELSE "ok"

\* can_start_job: "ok", or the reason of the refusal
CanStartJob(jobs, rows, s, t) ==
    IF IsJobRunning(jobs, s, t) THEN "running"
    ELSE IF /\ rows[s].last_scrape_at # None
            /\ t - rows[s].last_scrape_at < CooldownMinutes * SecondsPerMinute
         THEN "cooldown"
         ELSE "ok"

\* start_job: the value it returns
StartJob(jobs, s, t) == ~IsJobRunning(jobs, s, t)

\* start_job without the is_job_running test
StartJobJobsNoCheck(jobs, s, t) ==
    [jobs EXCEPT ![s] = [status |-> "running", started_at |-> t, error |-> "none"]]

\* start_job: the job table it leaves
StartJobJobs(jobs, s, t) ==
    IF IsJobRunning(jobs, s, t)
    THEN IsJobRunningJobs(jobs, s, t)
    ELSE [jobs EXCEPT ![s] = [status |-> "running", started_at |-> t, error |-> "none"]]

\* complete_job that leaves the status of the job as it is
CompleteJobJobsKeepsStatus(jobs, s, success, err) ==
    IF jobs[s].status = "absent" THEN jobs
    ELSE [jobs EXCEPT ![s].error = IF err # "none" THEN err ELSE @]

\* complete_job: the job table it leaves
CompleteJobJobs(jobs, s, success, err) ==
    IF jobs[s].status = "absent" THEN jobs
    ELSE [jobs EXCEPT ![s].status = IF success THEN "completed" ELSE "failed",
                      ![s].error = IF err # "none" THEN err ELSE @]

\* complete_job: the cleanup tasks after asyncio.create_task(self._cleanup_job(...))
CompleteJobTasks(tasks, jobs, s, t) ==
    IF jobs[s].status = "absent" THEN tasks
    ELSE tasks \cup {[s |-> s, at |-> t + CleanupDelay]}

\* _cleanup_job that deletes the entry whatever its status
CleanupJobJobsAnyStatus(jobs, s) == [jobs EXCEPT ![s] = NoJob]

\* _cleanup_job, after its sleep
CleanupJobJobs(jobs, s) ==
    IF jobs[s].status \in {"completed", "failed"}
    THEN [jobs EXCEPT ![s] = NoJob]
    ELSE jobs

----------------------------------------------------------------------------
(* Global rate limiter: GlobalRedditRateLimiter.wait_if_needed *)

MaxAcquire == 4      \* acquisitions recorded in a behaviour
MaxRequests == 2     \* max_requests_per_minute of the model
MaxIdle == 2         \* clock advances with no caller asleep
EpochStart == 100    \* time.time() at the first call

Window == 600        \* 60.0 s
Buffer == 1          \* 0.1 s
RateLimitDelay == 10 \* reddit_rate_limit_delay, 1.0 s

Callers == {"c1", "c2", "c3"}
NoCaller == "none"
Lateness == {0, 1}
IdleSteps == {1, RateLimitDelay, Window}

RECURSIVE Purge(_, _)
\* while self._request_timestamps and self._request_timestamps[0] < one_minute_ago: popleft()
Purge(ts, t) ==
    IF ts # <<>> /\ Head(ts) < t - Window THEN Purge(Tail(ts), t) ELSE ts

\* the cap test with > in place of >=
AtLimitStrict(ts) == Len(ts) > MaxRequests

\* len(self._request_timestamps) >= self.max_requests_per_minute
AtLimit(ts) == Len(ts) >= MaxRequests

\* wait_time = 60.0 - (current_time - oldest_request) + 0.1
WaitTime(ts, t) == Window - (t - Head(ts)) + Buffer

\* the sleep of step 1 a tenth of a second short
DelaySleepShort(last, t) ==
    IF t - last < RateLimitDelay THEN RateLimitDelay - (t - last) - 1 ELSE 0

\* sleep_time = self.rate_limit_delay - time_since_last, when positive
DelaySleep(last, t) ==
    IF t - last < RateLimitDelay THEN RateLimitDelay - (t - last) ELSE 0

\* an await inside the block gives the lock up
LockHolderNotInSleep(c) == NoCaller

\* async with self._lock: the caller holds the lock across the awaits of the
\* block, to the end of the block
LockHolder(c) == c

\* the record step with the lock kept at the end of the block
RecordLockKept(c, ts, t) ==
    /\ rl_ts' = Append(ts, t)
    /\ rl_last' = t
    /\ rl_log' = Append(rl_log, t)
    /\ rl_pc' = [rl_pc EXCEPT ![c] = "idle"]
    /\ rl_holder' = c
    /\ rl_wake' = 0

\* "Record this request": append and set _last_request_time, then the lock is released
Record(c, ts, t) ==
    /\ rl_ts' = Append(ts, t)
    /\ rl_last' = t
    /\ rl_log' = Append(rl_log, t)
    /\ rl_pc' = [rl_pc EXCEPT ![c] = "idle"]
    /\ rl_holder' = NoCaller
    /\ rl_wake' = 0

\* step 2 of wait_if_needed at current_time t: purge, check the cap, then sleep
\* for the window or record
Step2(c, t) ==
    LET ts == Purge(rl_ts, t)
    IN IF AtLimit(ts) /\ WaitTime(ts, t) > 0
       THEN /\ rl_ts' = ts
            /\ rl_pc' = [rl_pc EXCEPT ![c] = "sleep_window"]
            /\ rl_wake' = t + WaitTime(ts, t)
            /\ rl_holder' = LockHolder(c)
            /\ UNCHANGED <<rl_last, rl_log>>
       ELSE Record(c, ts, t)

\* the lock is taken and step 1 runs: sleep for the minimum delay, or go on
Enter(c) ==
    IF DelaySleep(rl_last, clock) > 0
    THEN /\ rl_pc' = [rl_pc EXCEPT ![c] = "sleep_delay"]
         /\ rl_wake' = clock + DelaySleep(rl_last, clock)
         /\ rl_holder' = LockHolder(c)
         /\ UNCHANGED <<rl_ts, rl_last, rl_log>>
    ELSE Step2(c, clock)

\* a caller calls wait_if_needed: it takes the free lock, or queues for it
RlCall(c) ==
    /\ UNCHANGED notRl
    /\ rl_pc[c] = "idle"
    /\ Len(rl_log) + Cardinality({x \in Callers : rl_pc[x] # "idle"}) < MaxAcquire
    /\ IF rl_holder = NoCaller
       THEN Enter(c)
       ELSE /\ rl_pc' = [rl_pc EXCEPT ![c] = "waiting"]
            /\ UNCHANGED <<rl_holder, rl_wake, rl_ts, rl_last, rl_log>>
    /\ UNCHANGED <<clock, rl_idle>>

\* a queued caller gets the released lock
RlAcquire(c) ==
    /\ UNCHANGED notRl
    /\ rl_pc[c] = "waiting"
    /\ rl_holder = NoCaller
    /\ Enter(c)
    /\ UNCHANGED <<clock, rl_idle>>

\* the sleep for the minimum delay ends, on time or late
RlWakeDelay(c, late) ==
    /\ UNCHANGED notRl
    /\ rl_pc[c] = "sleep_delay"
    /\ clock' = (IF clock > rl_wake THEN clock ELSE rl_wake) + late
    /\ Step2(c, clock')
    /\ UNCHANGED rl_idle

\* the sleep for the window ends, on time or late: purge again and record
RlWakeWindow(c, late) ==
    /\ UNCHANGED notRl
    /\ rl_pc[c] = "sleep_window"
    /\ clock' = (IF clock > rl_wake THEN clock ELSE rl_wake) + late
    /\ Record(c, Purge(rl_ts, clock'), clock')
    /\ UNCHANGED rl_idle

\* time passes while nobody sleeps in the limiter
RlTick(d) ==
    /\ UNCHANGED notRl
    /\ rl_holder = NoCaller
    /\ rl_idle < MaxIdle
    /\ clock' = clock + d
    /\ rl_idle' = rl_idle + 1
    /\ UNCHANGED <<rl_holder, rl_pc, rl_wake, rl_ts, rl_last, rl_log>>

RlInit ==
    /\ clock = EpochStart
    /\ rl_holder = NoCaller
    /\ rl_pc = [c \in Callers |-> "idle"]
    /\ rl_wake = 0
    /\ rl_ts = <<>>
    /\ rl_last = 0
    /\ rl_log = <<>>
    /\ rl_idle = 0

RlNext ==
    \/ \E c \in Callers : RlCall(c)
    \/ \E c \in Callers : RlAcquire(c)
    \/ \E c \in Callers, late \in Lateness : RlWakeDelay(c, late)
    \/ \E c \in Callers, late \in Lateness : RlWakeWindow(c, late)
    \/ \E d \in IdleSteps : RlTick(d)

----------------------------------------------------------------------------
(* Retrying fetch of subreddits and of post comments: RedditScraper *)

MaxTargets == 3      \* subreddits a config lists
MaxPosts == 2        \* posts the connector returns for a subreddit
MaxComments == 1     \* comments the connector returns for a post
MaxFetched == 3      \* posts the connector returns in one call of the scraper

RetryAttempts == 3   \* reddit_retry_attempts
PostLimit == 100     \* config.get("limit", 100)
CommentLimit == 100  \* config.get("comment_limit", 100)

SubredditNames == <<"a", "b", "c", "d">>
Outcomes == {"ok", "transient", "fatal"}
FetchFns == {"scrape_posts", "scrape_with_comments"}

\* the configured "subreddits" lists of the model: the first n names
SubredditList(n) == SubSeq(SubredditNames, 1, n)

\* the substitution made whatever the list holds
EffectiveAllOnly(subs) == <<"all">>

\* if not subreddits or len(subreddits) == 0: subreddits = ["all"]
Effective(subs) == IF subs = <<>> THEN <<"all">> ELSE subs

\* what the connector yields for a subreddit, and for a post
ConnectorPosts(sub, n) == [k \in 1..n |-> [sub |-> sub, k |-> k]]
ConnectorComments(post, n) == [k \in 1..n |-> [post |-> post, k |-> k]]

\* the loop of _scrape_post_comments_with_retry over the comments the
\* submission lists: "if limit and comment_count >= limit: break", so a limit
\* of 0 (or None) is no limit
TakeComments(items, limit) ==
    IF limit # 0 /\ limit # None /\ Len(items) > limit
    THEN SubSeq(items, 1, limit)
    ELSE items

\* ScrapingMetrics(search_id, platform, subreddit, start_time)
NewMetrics(sub) ==
    [subreddit |-> sub, posts_scraped |-> 0, comments_scraped |-> 0,
     posts_failed |-> 0, comments_failed |-> 0,
     subreddits_succeeded |-> 0, subreddits_failed |-> 0, errors |-> <<>>]

\* tenacity with the retry off by one: a retry after attempt N too
ShouldRetryOneMore(outcome, attempt) ==
    outcome = "transient" /\ attempt <= RetryAttempts

\* no retry at all
ShouldRetryNever(outcome, attempt) == FALSE

\* tenacity retrying on every exception, the non-transient ones too
ShouldRetryAnyFailure(outcome, attempt) ==
    outcome # "ok" /\ attempt < RetryAttempts

\* tenacity: retry_if_exception_type(transient classes), stop_after_attempt(N)
ShouldRetry(outcome, attempt) ==
    outcome = "transient" /\ attempt < RetryAttempts

\* scrape_subreddit once its retry loop ended with `outcome`: the posts, or []
\* from either except block; it raises nothing
ScrapeSubreddit(outcome, items) ==
    [raised |-> FALSE, items |-> IF outcome = "ok" THEN items ELSE <<>>]

\* scrape_post_comments once its retry loop ended with `outcome`
ScrapePostComments(outcome, items) ==
    [raised |-> FALSE, items |-> IF outcome = "ok" THEN items ELSE <<>>]

\* the except blocks of scrape_subreddit and of scrape_post_comments:
\* logger.error("Failed to scrape ...", subreddit=... / post_id=...), once per
\* call that failed, for the target (k = 0) or the post at hand; NoSubject:
\* nothing is logged as an error
NoSubject == [sub |-> "none", k |-> 0]
Target(sub) == [sub |-> sub, k |-> 0]
FailureLogged(outcome, subject) == IF outcome = "ok" THEN NoSubject ELSE subject

\* all_posts = posts, in place of all_posts.extend(posts)
ExtendAssign(acc, items) == items

\* all_posts.extend(posts), all_comments.extend(comments)
Extend(acc, items) == acc \o items

\* a comment fetch that failed ends the loop over the posts
NextPostStopOnFailure(failed, j, n) == IF ~failed /\ j < n THEN j + 1 ELSE 0

\* for post in posts, with the try / except inside the loop body: the index of
\* the next post, 0 after the last one
NextPost(failed, j, n) == IF j < n THEN j + 1 ELSE 0

\* the except block of the loop body: the failure record
FailedMetrics(m, err) ==
    [m EXCEPT !.posts_failed = PostLimit, !.subreddits_failed = 1,
              !.errors = Append(@, err)]

\* the finally block of the loop body, then the next subreddit or the return
FinishTarget(m) ==
    /\ f_recorded' = Append(f_recorded, m)
    /\ f_posts' = <<>>
    /\ f_j' = 0
    /\ f_att' = 0
    /\ f_acq' = 0
    /\ f_outs' = <<>>
    /\ IF f_i < Len(Effective(f_cfg))
       THEN /\ f_i' = f_i + 1
            /\ f_pc' = "posts"
            /\ f_metrics' = NewMetrics(Effective(f_cfg)[f_i + 1])
       ELSE /\ f_i' = f_i
            /\ f_pc' = "done"
            /\ f_metrics' = m

\* scrape_posts / scrape_with_comments is called: up to the first await
ScrapeStart(fn, n, inc) ==
    /\ UNCHANGED notFetch
    /\ f_pc = "idle"
    /\ fn = "scrape_with_comments" \/ ~inc
    /\ f_fn' = fn
    /\ f_cfg' = SubredditList(n)
    /\ f_inc' = inc
    /\ f_pc' = "posts"
    /\ f_i' = 1
    /\ f_metrics' = NewMetrics(Effective(SubredditList(n))[1])
    /\ UNCHANGED <<f_j, f_att, f_acq, f_outs, f_posts, all_posts, all_comments,
                   f_recorded, f_log, f_clog, f_last>>

\* the retry re-enters after the rate limiter: one acquisition serves every
\* attempt of the loop
AcquisitionsBeforeFirstOnly(att) == 1

\* tenacity calls _retry_scrape for every attempt, and the function it wraps
\* starts with "await self._rate_limit()": the acquisitions the loop has to
\* have made before the connector call of attempt number att
AcquisitionsBefore(att) == att

\* await self._rate_limit() of the attempt at hand: wait_if_needed is called
\* and returns
RateLimit ==
    /\ UNCHANGED notFetch
    /\ f_pc \in {"posts", "comments"}
    /\ f_acq < AcquisitionsBefore(f_att + 1)
    /\ f_acq' = f_acq + 1
    /\ UNCHANGED <<f_pc, f_fn, f_cfg, f_inc, f_i, f_j, f_att, f_outs, f_posts,
                   f_metrics, all_posts, all_comments, f_recorded, f_log, f_clog,
                   f_last>>

\* one attempt of _scrape_subreddit_with_retry, after its rate limiter call:
\* the connector call; when the retry loop ends, scrape_subreddit returns and
\* the loop body goes on to the first comment fetch or to the end of the target
PostsAttempt(outcome, n) ==
    /\ UNCHANGED notFetch
    /\ f_pc = "posts"
    /\ f_acq = AcquisitionsBefore(f_att + 1)
    /\ outcome = "ok" \/ n = 0
    /\ LET att == f_att + 1
           sub == Effective(f_cfg)[f_i]
           r == ScrapeSubreddit(outcome, ConnectorPosts(sub, n))
           m == [f_metrics EXCEPT !.posts_scraped = Len(r.items)]
           entry == [sub |-> sub, failed |-> outcome # "ok",
                     got |-> ConnectorPosts(sub, n)]
       IN IF ShouldRetry(outcome, att)
          THEN /\ f_att' = att
               /\ f_acq' = f_acq
               /\ f_outs' = Append(f_outs, outcome)
               /\ UNCHANGED <<f_pc, f_i, f_j, f_posts, f_metrics, all_posts,
                              all_comments, f_recorded, f_log, f_last>>
          ELSE /\ f_last' = [kind |-> "posts", attempts |-> att,
                             acquired |-> f_acq,
                             transient_only |-> outcome = "transient",
                             failed |-> outcome # "ok",
                             outcomes |-> Append(f_outs, outcome),
                             subject |-> Target(sub),
                             logged |-> FailureLogged(outcome, Target(sub))]
               /\ IF r.raised
                  THEN /\ FinishTarget(FailedMetrics(f_metrics, outcome))
                       /\ UNCHANGED <<all_posts, all_comments>>
                  ELSE /\ all_posts' = Extend(all_posts, r.items)
                       /\ UNCHANGED all_comments
                       /\ IF f_fn = "scrape_with_comments" /\ f_inc /\ r.items # <<>>
                          THEN /\ f_pc' = "comments"
                               /\ f_posts' = r.items
                               /\ f_j' = 1
                               /\ f_att' = 0
                               /\ f_acq' = 0
                               /\ f_outs' = <<>>
                               /\ f_metrics' = m
                               /\ UNCHANGED <<f_i, f_recorded>>
                          ELSE FinishTarget([m EXCEPT !.subreddits_succeeded = 1])
               /\ f_log' = Append(f_log, entry)
    /\ UNCHANGED <<f_fn, f_cfg, f_inc, f_clog>>

\* one attempt of _scrape_post_comments_with_retry for the post at hand,
\* after its rate limiter call; when the retry loop ends, scrape_post_comments
\* returns and the loop goes on to the next post or to the end of the target
CommentsAttempt(outcome, n) ==
    /\ UNCHANGED notFetch
    /\ f_pc = "comments"
    /\ f_acq = AcquisitionsBefore(f_att + 1)
    /\ outcome = "ok" \/ n = 0
    /\ LET att == f_att + 1
           post == f_posts[f_j]
           r == ScrapePostComments(outcome,
                                   TakeComments(ConnectorComments(post, n), CommentLimit))
           m == IF r.raised
                THEN [f_metrics EXCEPT !.comments_failed = @ + 1,
                                       !.errors = Append(@, outcome)]
                ELSE [f_metrics EXCEPT !.comments_scraped = @ + Len(r.items)]
           next == NextPost(outcome # "ok", f_j, Len(f_posts))
           entry == [post |-> post, failed |-> outcome # "ok",
                     got |-> ConnectorComments(post, n)]
       IN IF ShouldRetry(outcome, att)
          THEN /\ f_att' = att
               /\ f_acq' = f_acq
               /\ f_outs' = Append(f_outs, outcome)
               /\ UNCHANGED <<f_pc, f_i, f_j, f_posts, f_metrics, all_posts,
                              all_comments, f_recorded, f_clog, f_last>>
          ELSE /\ f_last' = [kind |-> "comments", attempts |-> att,
                             acquired |-> f_acq,
                             transient_only |-> outcome = "transient",
                             failed |-> outcome # "ok",
                             outcomes |-> Append(f_outs, outcome),
                             subject |-> post,
                             logged |-> FailureLogged(outcome, post)]
               /\ all_comments' = IF r.raised THEN all_comments
                                  ELSE Extend(all_comments, r.items)
               /\ UNCHANGED all_posts
               /\ f_clog' = Append(f_clog, entry)
               /\ IF next # 0
                  THEN /\ f_j' = next
                       /\ f_att' = 0
                       /\ f_acq' = 0
                       /\ f_outs' = <<>>
                       /\ f_metrics' = m
                       /\ UNCHANGED <<f_pc, f_i, f_posts, f_recorded>>
                  ELSE FinishTarget([m EXCEPT !.subreddits_succeeded = 1])
    /\ UNCHANGED <<f_fn, f_cfg, f_inc, f_log>>

\* PostsAttempt for a connector that returns at most MaxFetched posts in one
\* call of the scraper
BoundedPostsAttempt(outcome, n) ==
    /\ Len(all_posts) + n <= MaxFetched
    /\ PostsAttempt(outcome, n)

NoFetch == [kind |-> "none", attempts |-> 0, acquired |-> 0,
            transient_only |-> FALSE, failed |-> FALSE, outcomes |-> <<>>,
            subject |-> NoSubject, logged |-> NoSubject]

FetchInit ==
    /\ f_pc = "idle"
    /\ f_fn = "none"
    /\ f_cfg = <<>>
    /\ f_inc = FALSE
    /\ f_i = 0
    /\ f_j = 0
    /\ f_att = 0
    /\ f_acq = 0
    /\ f_outs = <<>>
    /\ f_posts = <<>>
    /\ f_metrics = NewMetrics("none")
    /\ all_posts = <<>>
    /\ all_comments = <<>>
    /\ f_recorded = <<>>
    /\ f_log = <<>>
    /\ f_clog = <<>>
    /\ f_last = NoFetch

FetchNext ==
    \/ \E fn \in FetchFns, n \in 0..MaxTargets, inc \in BOOLEAN :
          ScrapeStart(fn, n, inc)
    \/ RateLimit
    \/ \E outcome \in Outcomes, n \in 0..MaxPosts : BoundedPostsAttempt(outcome, n)
    \/ \E outcome \in Outcomes, n \in 0..MaxComments : CommentsAttempt(outcome, n)

\* The scraper called for two targets, with a connector that returns 0, 3 or
\* 5 posts for a target and no comments
ScenarioTargets == {2}
ScenarioPosts == {0, 3, 5}
ScenarioComments == {0}

ScenarioNext ==
    \/ \E fn \in FetchFns, n \in ScenarioTargets, inc \in BOOLEAN :
          ScrapeStart(fn, n, inc)
    \/ RateLimit
    \/ \E outcome \in Outcomes, n \in ScenarioPosts : PostsAttempt(outcome, n)
    \/ \E outcome \in Outcomes, n \in ScenarioComments : CommentsAttempt(outcome, n)

----------------------------------------------------------------------------
(* Dedup ledger and leads: LeadStorage *)

MaxLedgerOps == 3    \* filter and mark calls of the ledger harness
MaxItems == 2        \* items a connector response or a filter call holds
MaxRuns == 2         \* pipeline runs in a behaviour

NoField == "none"    \* a key the item dict lacks, or holds a falsy value for
ItemIds == {"x1", "x2"}
Sources == {"reddit", "twitter"}

\* item dicts handed to filter_already_scraped: with and without "source",
\* keyed by "id" or by "source_id", and with neither
LedgerItems ==
    { [source |-> "reddit", id |-> "x1", source_id |-> NoField],
      [source |-> NoField, id |-> "x2", source_id |-> NoField],
      [source |-> NoField, id |-> NoField, source_id |-> "x1"],
      [source |-> NoField, id |-> NoField, source_id |-> NoField] }

\* the sequences of at most n elements of S, none repeated
ListsOf(S, n) ==
    UNION {{q \in [1..k -> S] : \A i, j \in 1..k : q[i] = q[j] => i = j} : k \in 0..n}

Range(q) == {q[k] : k \in 1..Len(q)}

\* the item lists the direct filter calls are handed
LedgerLists == ListsOf(LedgerItems, MaxItems)

\* item.get("source", "reddit")
ItemSource(item) == IF item.source = NoField THEN "reddit" ELSE item.source

\* item.get("id") or item.get("source_id")
ItemSourceId(item) == IF item.id # NoField THEN item.id ELSE item.source_id

\* scraped_ids of a query with no filter on keyword_search_id
ScrapedIdsOfAnySearch(led, s) == {<<e.source, e.source_id>> : e \in led}

\* scraped_ids: the (source, source_id) pairs recorded for the search
ScrapedIds(led, s) == {<<e.source, e.source_id>> : e \in {x \in led : x.search = s}}

\* filter_already_scraped that drops only the items without an id
FilterAlreadyScrapedKeepsRecorded(led, s, items) ==
    SelectSeq(items, LAMBDA item : ItemSourceId(item) # NoField)

\* filter_already_scraped
FilterAlreadyScraped(led, s, items) ==
    SelectSeq(items, LAMBDA item :
                 /\ ItemSourceId(item) # NoField
                 /\ <<ItemSource(item), ItemSourceId(item)>> \notin ScrapedIds(led, s))

\* the records of the composite key (search, source, source_id)
Existing(led, s, source, source_id) ==
    {e \in led : e.search = s /\ e.source = source /\ e.source_id = source_id}

\* mark_content_scraped that records only the content a lead was created from
MarkContentScrapedLeadsOnly(led, s, source, source_id, created_lead, t) ==
    IF created_lead
    THEN (led \ Existing(led, s, source, source_id))
            \cup {[search |-> s, source |-> source, source_id |-> source_id,
                   created_lead |-> created_lead, processed_at |-> t]}
    ELSE led

\* mark_content_scraped without the query for an existing record
MarkContentScrapedInsertOnly(led, s, source, source_id, created_lead, t) ==
    led \cup {[search |-> s, source |-> source, source_id |-> source_id,
               created_lead |-> created_lead, processed_at |-> t]}

\* mark_content_scraped at time t: the existing record gets processed_at and
\* created_lead set, or a new record is added
MarkContentScraped(led, s, source, source_id, created_lead, t) ==
    IF Existing(led, s, source, source_id) # {}
    THEN {IF e \in Existing(led, s, source, source_id)
          THEN [e EXCEPT !.processed_at = t, !.created_lead = created_lead]
          ELSE e : e \in led}
    ELSE led \cup {[search |-> s, source |-> source, source_id |-> source_id,
                    created_lead |-> created_lead, processed_at |-> t]}

\* save_lead: the leads table it leaves; a lead of the same search and
\* source_id is kept as it is
SaveLead(lds, s, source_id) == lds \cup {[search |-> s, source_id |-> source_id]}

\* save_lead: whether it returns a Lead (the existing one or the new one)
SaveLeadReturns(lds, s, source_id) == TRUE

\* save_lead on the rows of the leads table, each with its primary key
MaxSaves == 4        \* save_lead calls in a behaviour

\* the Lead objects with the key of the lead state
LeadsOfKey(lds, st) ==
    {l \in lds : l.source_id = st.source_id /\ l.search = st.search}

\* save_lead with no query for an existing lead
SaveLeadRowsNoQuery(lds, st) == lds \cup {st}

\* save_lead: the rows of the leads table it leaves
SaveLeadRows(lds, st) ==
    IF LeadsOfKey(lds, st) # {} THEN lds ELSE lds \cup {st}

\* save_lead: the Lead it returns, the existing one or the one it added
SaveLeadResult(lds, st) ==
    IF LeadsOfKey(lds, st) # {}
    THEN CHOOSE l \in LeadsOfKey(lds, st) : \A m \in LeadsOfKey(lds, st) : l.id <= m.id
    ELSE st

\* save_lead called directly; the lead state carries a new id (uuid4)
LSave(s, source_id) ==
    /\ UNCHANGED notPipe
    /\ l_ops < MaxSaves
    /\ l_ops' = l_ops + 1
    /\ LET st == [id |-> l_ops + 1, search |-> s, source_id |-> source_id]
       IN /\ leads' = SaveLeadRows(leads, st)
          /\ l_ret' = [op |-> "save_lead", arg |-> st, before |-> leads,
                       val |-> SaveLeadResult(leads, st)]
    /\ UNCHANGED <<ledger, l_fm, p_pc, p_run, p_prev, p_runs>>

LeadsNext ==
    \/ \E s \in Searches, source_id \in ItemIds : LSave(s, source_id)

NoFilter == [s |-> NoSearch, n |-> 0, out |-> <<>>, dropped |-> {}]

\* filter_already_scraped called directly
LFilter(s, items) ==
    /\ UNCHANGED notPipe
    /\ l_ops < MaxLedgerOps
    /\ l_ops' = l_ops + 1
    /\ l_ret' = [s |-> s, n |-> l_ops + 1,
                 out |-> FilterAlreadyScraped(ledger, s, items),
                 dropped |-> Range(items) \ Range(FilterAlreadyScraped(ledger, s, items))]
    /\ UNCHANGED <<ledger, leads, l_fm, p_pc, p_run, p_prev, p_runs>>

\* mark_content_scraped called directly; l_fm gains the items the last filter
\* call for the search returned and this call marks
LMark(s, source, source_id, created_lead) ==
    /\ UNCHANGED notPipe
    /\ l_ops < MaxLedgerOps
    /\ l_ops' = l_ops + 1
    /\ ledger' = MarkContentScraped(ledger, s, source, source_id, created_lead, now)
    /\ l_fm' = l_fm \cup {<<s, item>> : item \in
                    {x \in Range(l_ret.out) : /\ l_ret.s = s
                                              /\ ItemSource(x) = source
                                              /\ ItemSourceId(x) = source_id}}
    /\ UNCHANGED <<leads, l_ret, p_pc, p_run, p_prev, p_runs>>

----------------------------------------------------------------------------
(* mark_content_scraped called by two processes that share the database: the
   API server and the standalone scheduler each run pipelines *)

Markers == {"api", "scheduler"}
NoMark == [s |-> NoSearch, source |-> NoField, source_id |-> NoField,
           created_lead |-> FALSE, existing |-> FALSE]

\* the calls of the model: the keys of one search and one source
RaceSearches == {"s1"}
RaceSources == {"reddit"}

\* session.commit() of the insert: the unique index
\* idx_scraped_content_search_source rejects a second record of the key
CommitRaises(led, arg) ==
    /\ ~arg.existing
    /\ Existing(led, arg.s, arg.source, arg.source_id) # {}

\* the table after the commit of the update or of the insert, or after the
\* rollback of the except block
CommitMark(led, arg, t) ==
    IF CommitRaises(led, arg) THEN led
    ELSE MarkContentScraped(led, arg.s, arg.source, arg.source_id, arg.created_lead, t)

\* mark_content_scraped up to the result of session.query(...).first()
MarkQuery(c, s, source, source_id, created_lead) ==
    /\ UNCHANGED notMark
    /\ m_pc[c] = "idle"
    /\ m_pc' = [m_pc EXCEPT ![c] = "queried"]
    /\ m_arg' = [m_arg EXCEPT ![c] =
                    [s |-> s, source |-> source, source_id |-> source_id,
                     created_lead |-> created_lead,
                     existing |-> Existing(ledger, s, source, source_id) # {}]]
    /\ UNCHANGED <<ledger, m_ret>>

\* mark_content_scraped from there to its end: the update or the insert is
\* committed and the record returned, or the commit raises and the except
\* block rolls back, logs and raises again
MarkCommit(c) ==
    /\ UNCHANGED notMark
    /\ m_pc[c] = "queried"
    /\ ledger' = CommitMark(ledger, m_arg[c], now)
    /\ m_ret' = [m_ret EXCEPT ![c] =
                    IF CommitRaises(ledger, m_arg[c]) THEN "raised" ELSE "returned"]
    /\ m_pc' = [m_pc EXCEPT ![c] = "idle"]
    /\ m_arg' = [m_arg EXCEPT ![c] = NoMark]

\* The interval trigger of RixlyScheduler.start and the instances of the job
\* its executor runs
TimerInstances == {"i1", "i2"}

NoInstance == [pc |-> "idle", cur |-> NoSearch, rest |-> <<>>]

TimerInit ==
    /\ k_inst = [i \in TimerInstances |-> NoInstance]
    /\ k_fired = 0
    /\ k_last = "none"

MarkRaceInit ==
    /\ m_pc = [c \in Markers |-> "idle"]
    /\ m_arg = [c \in Markers |-> NoMark]
    /\ m_ret = [c \in Markers |-> "none"]

MarkRaceNext ==
    \/ \E c \in Markers, s \in RaceSearches, source \in RaceSources,
          source_id \in ItemIds, created_lead \in BOOLEAN :
          MarkQuery(c, s, source, source_id, created_lead)
    \/ \E c \in Markers : MarkCommit(c)

----------------------------------------------------------------------------
(* Pipeline run: process_keyword_search, steps 1 to 6 *)

\* what the connector returns: posts with their id, whether filter_combined
\* keeps them and whether analyze_lead makes a lead of them
PipeItems ==
    [source : {"reddit"}, id : ItemIds, source_id : {NoField},
     relevant : BOOLEAN, valid : BOOLEAN]

Responses == {q \in ListsOf(PipeItems, MaxItems) :
                 \A i, j \in 1..Len(q) : q[i].id = q[j].id => i = j}

\* filter_combined: the items that match and pass the score and age tests
FilterCombined(items) == SelectSeq(items, LAMBDA item : item.relevant)

\* step 4: leads_data, with source_id = post.get("id") and source "reddit"
LeadsData(items) ==
    [k \in 1..Len(items) |->
        [source |-> "reddit", source_id |-> items[k].id, valid |-> items[k].valid]]

\* analyze_leads: the candidates analyze_lead returns a LeadState for
AnalyzeLeads(leads_data) == SelectSeq(leads_data, LAMBDA d : d.valid)

\* step 6: for lead_state in analyzed_leads: save_lead, mark_content_scraped
RECURSIVE StoreLeads(_, _, _, _, _)
StoreLeads(analyzed, led, lds, s, t) ==
    IF analyzed = <<>>
    THEN [ledger |-> led, leads |-> lds]
    ELSE LET lead == Head(analyzed)
         IN StoreLeads(Tail(analyzed),
                       MarkContentScraped(led, s, lead.source, lead.source_id,
                                          SaveLeadReturns(lds, s, lead.source_id), t),
                       SaveLead(lds, s, lead.source_id),
                       s, t)

NoRun == [s |-> NoSearch, fetched |-> <<>>, fresh |-> <<>>, handed |-> <<>>,
          again |-> FALSE]

\* process_keyword_search up to the await of process_platform
PipeBegin(s) ==
    /\ UNCHANGED notPipe
    /\ p_pc[s] = "idle"
    /\ p_runs < MaxRuns
    /\ p_runs' = p_runs + 1
    /\ p_pc' = [p_pc EXCEPT ![s] = "fetching"]
    /\ UNCHANGED <<ledger, leads, l_ret, l_fm, l_ops, p_run, p_prev>>

\* the fetch returned `items`: dedup filter, parse, content filter, analysis,
\* store and mark, to the end of the run
PipeProcess(s, items) ==
    /\ UNCHANGED notPipe
    /\ p_pc[s] = "fetching"
    /\ LET fresh == FilterAlreadyScraped(ledger, s, items)
           cands == LeadsData(FilterCombined(fresh))
           r == StoreLeads(AnalyzeLeads(cands), ledger, leads, s, now)
       IN /\ ledger' = r.ledger
          /\ leads' = r.leads
          /\ p_run' = [s |-> s, fetched |-> items, fresh |-> fresh, handed |-> cands,
                       again |-> p_prev[s] = <<items>>]
    /\ p_prev' = [p_prev EXCEPT ![s] = <<items>>]
    /\ p_pc' = [p_pc EXCEPT ![s] = "idle"]
    /\ UNCHANGED <<l_ret, l_fm, l_ops, p_runs>>

PipeInit ==
    /\ ledger = {}
    /\ leads = {}
    /\ l_ret = NoFilter
    /\ l_fm = {}
    /\ l_ops = 0
    /\ p_pc = [s \in Searches |-> "idle"]
    /\ p_run = NoRun
    /\ p_prev = [s \in Searches |-> <<>>]
    /\ p_runs = 0

LedgerNext ==
    \/ \E s \in Searches, items \in LedgerLists : LFilter(s, items)
    \/ \E s \in Searches, source \in Sources, source_id \in ItemIds,
          created_lead \in BOOLEAN : LMark(s, source, source_id, created_lead)

PipeNext ==
    \/ \E s \in Searches : PipeBegin(s)
    \/ \E s \in Searches, items \in Responses : PipeProcess(s, items)

(* Pipeline run in which analysis or persistence fails for some candidates:
   process_keyword_search, steps 5 to 8 and the except block *)

\* how a persistence call of step 6 can fail: save_lead raises, or
\* mark_content_scraped raises after save_lead has committed the lead
PersistFailures == {"save_lead", "mark_content_scraped"}

\* analyze_leads when analyze_lead raises inside its try block for the ids in
\* `broken`: the except block logs and returns None, the loop goes on
AnalyzeLeadsWith(leads_data, broken) ==
    SelectSeq(leads_data, LAMBDA d : d.valid /\ d.source_id \notin broken)

\* step 6 when a persistence call raises for the ids in `bad`: the for loop
\* has no try of its own, so the first exception leaves it
RECURSIVE StoreLeadsUntil(_, _, _, _, _, _, _, _)
StoreLeadsUntil(analyzed, led, lds, stored, s, t, bad, at) ==
    IF analyzed = <<>>
    THEN [ledger |-> led, leads |-> lds, stored |-> stored, raised |-> FALSE]
    ELSE LET lead == Head(analyzed)
         IN IF lead.source_id \in bad
            THEN [ledger |-> led,
                  leads |-> IF at = "save_lead" THEN lds
                            ELSE SaveLead(lds, s, lead.source_id),
                  stored |-> IF at = "save_lead" THEN stored
                             ELSE Append(stored, lead.source_id),
                  raised |-> TRUE]
            ELSE StoreLeadsUntil(Tail(analyzed),
                                 MarkContentScraped(led, s, lead.source, lead.source_id,
                                                    SaveLeadReturns(lds, s, lead.source_id), t),
                                 SaveLead(lds, s, lead.source_id),
                                 Append(stored, lead.source_id),
                                 s, t, bad, at)

\* the dictionary process_keyword_search returns: step 8, or the except block
RunResult(r) ==
    IF r.raised
    THEN [status |-> "error", leads_created |-> 0, leads |-> <<>>]
    ELSE [status |-> "success", leads_created |-> Len(r.stored), leads |-> r.stored]

\* the fetch returned `items`: the rest of the run, with the analysis failing
\* for `broken` and the persistence for `bad`
PipeProcessFailing(s, items, broken, bad, at) ==
    /\ UNCHANGED notPipe
    /\ p_pc[s] = "fetching"
    /\ LET fresh == FilterAlreadyScraped(ledger, s, items)
           cands == LeadsData(FilterCombined(fresh))
           r == StoreLeadsUntil(AnalyzeLeadsWith(cands, broken), ledger, leads,
                                <<>>, s, now, bad, at)
       IN /\ ledger' = r.ledger
          /\ leads' = r.leads
          /\ p_run' = [s |-> s, fetched |-> items, fresh |-> fresh, handed |-> cands,
                       again |-> p_prev[s] = <<items>>,
                       broken |-> broken, bad |-> bad,
                       stored |-> r.stored, result |-> RunResult(r)]
    /\ p_prev' = [p_prev EXCEPT ![s] = <<items>>]
    /\ p_pc' = [p_pc EXCEPT ![s] = "idle"]
    /\ UNCHANGED <<l_ret, l_fm, l_ops, p_runs>>

\* the search whose runs fail
StoreSearches == {"s1"}

\* the failures of a run: analyze_lead raises for the ids in `broken`, and a
\* persistence call raises for the id in `bad`, if any (the loop ends there)
Failures ==
    {f \in [broken : SUBSET ItemIds, bad : SUBSET ItemIds, at : PersistFailures] :
        /\ \A a, b \in f.bad : a = b
        /\ f.broken \cap f.bad = {}
        /\ f.bad = {} => f.at = "save_lead"}

StoreNext ==
    \/ \E s \in StoreSearches : PipeBegin(s)
    \/ \E s \in StoreSearches, items \in Responses, f \in Failures :
             PipeProcessFailing(s, items, f.broken, f.bad, f.at)

----------------------------------------------------------------------------
(* Limit enforcement: process_keyword_search, "Validate and enforce maximum
   limits", and the limits the scraper then reads from the config *)

MaxPostsPerSearch == 1000    \* reddit_max_posts_per_search
MaxCommentsPerPost == 500    \* reddit_max_comments_per_post

\* the reddit_config values of the model; None: the key is absent
RequestedLimits == {None, 0, 1, PostLimit, MaxPostsPerSearch, MaxPostsPerSearch + 1}
RequestedCommentLimits ==
    {None, 0, 1, CommentLimit, MaxCommentsPerPost, MaxCommentsPerPost + 1}
SubredditCounts == {0, 1, 2, MaxPostsPerSearch, MaxPostsPerSearch + 1}
\* the numbers of comments a submission lists
ListedComments == {0, 1, MaxCommentsPerPost, MaxCommentsPerPost + 1}

LimitConfigs ==
    [limit : RequestedLimits, comment_limit : RequestedCommentLimits,
     subreddits : SubredditCounts]

\* config.get("limit", 100) and config.get("comment_limit", 100)
GetLimit(cfg) == IF cfg.limit = None THEN PostLimit ELSE cfg.limit
GetCommentLimit(cfg) ==
    IF cfg.comment_limit = None THEN CommentLimit ELSE cfg.comment_limit

\* num_subreddits = max(1, len(subreddits_list)) if subreddits_list else 1
NumSubreddits(cfg) == IF cfg.subreddits >= 1 THEN cfg.subreddits ELSE 1

\* max(1, reddit_max_posts_per_search // num_subreddits)
MaxPerSubreddit(num) ==
    IF MaxPostsPerSearch \div num >= 1 THEN MaxPostsPerSearch \div num ELSE 1

\* the config after "Validate post limit per subreddit"
EnforcePostLimit(cfg) ==
    IF GetLimit(cfg) * NumSubreddits(cfg) > MaxPostsPerSearch
    THEN [cfg EXCEPT !.limit = MaxPerSubreddit(NumSubreddits(cfg))]
    ELSE cfg

\* the config after "Validate comment limit per post"
EnforceCommentLimit(cfg) ==
    IF GetCommentLimit(cfg) > MaxCommentsPerPost
    THEN [cfg EXCEPT !.comment_limit = MaxCommentsPerPost]
    ELSE cfg

\* process_keyword_search from the platform loop to the await of
\* process_platform: the config dict is changed in place
LimEnforce ==
    /\ UNCHANGED notLim
    /\ lim_pc = "created"
    /\ lim_cfg' = EnforceCommentLimit(EnforcePostLimit(lim_cfg))
    /\ lim_pc' = "enforced"
    /\ UNCHANGED lim_got

\* scrape_with_comments reads comment_limit from the config and
\* scrape_post_comments fetches the comments of a post that lists n of them
LimFetchComments(n) ==
    /\ UNCHANGED notLim
    /\ lim_pc = "enforced"
    /\ lim_got' = Len(TakeComments(ConnectorComments("post", n),
                                   GetCommentLimit(lim_cfg)))
    /\ lim_pc' = "fetched"
    /\ UNCHANGED lim_cfg

\* no run: the default config
LimInit ==
    /\ lim_pc = "created"
    /\ lim_cfg = [limit |-> None, comment_limit |-> None, subreddits |-> 0]
    /\ lim_got = 0

LimNext ==
    \/ LimEnforce
    \/ \E n \in ListedComments : LimFetchComments(n)

----------------------------------------------------------------------------
(* Stored searches: KeywordSearchManager and LeadStorage *)

IntervalSeconds(interval) ==
    CASE interval = "30m" -> 1800
      [] interval = "1h" -> 3600
      [] interval = "6h" -> 21600
      [] interval = "24h" -> 86400
      [] OTHER -> 3600

\* _calculate_next_scrape that adds the default of one hour whatever the interval
CalculateNextScrapeHourly(from, interval) == from + IntervalSeconds("1h")

\* _calculate_next_scrape
CalculateNextScrape(from, interval) == from + IntervalSeconds(interval)

\* next_scrape_at a save after a scrape at time t carries
NextAfterScrape(row, t) ==
    IF row.mode = "scheduled" /\ row.interval # "none"
    THEN CalculateNextScrape(t, row.interval)
    ELSE row.next_scrape_at

\* mark_scraped: get_search, set last/next, save_keyword_search
MarkScraped(rows, s, t) ==
    [rows EXCEPT ![s].last_scrape_at = t,
                 ![s].next_scrape_at = NextAfterScrape(rows[s], t)]

\* get_due_keyword_searches without the test of the enabled flag
IsDueDisabledToo(row, t) ==
    /\ row.mode = "scheduled"
    /\ row.next_scrape_at # None
    /\ row.next_scrape_at <= t

\* get_due_keyword_searches: the rows the query selects
IsDue(row, t) ==
    /\ row.enabled
    /\ row.mode = "scheduled"
    /\ row.next_scrape_at # None
    /\ row.next_scrape_at <= t

DueSearches(rows, t) == {s \in Searches : IsDue(rows[s], t)}

SearchConfigs ==
    { [enabled |-> TRUE, mode |-> "scheduled", interval |-> "30m"],
      [enabled |-> FALSE, mode |-> "scheduled", interval |-> "1h"],
      [enabled |-> TRUE, mode |-> "one_time", interval |-> "none"] }

NewRow(c) ==
    [enabled |-> c.enabled, mode |-> c.mode, interval |-> c.interval,
     last_scrape_at |-> None,
     next_scrape_at |-> IF c.mode = "scheduled" THEN 0 ELSE None]

----------------------------------------------------------------------------
(* Clock and the delayed cleanup tasks *)

\* A cleanup task whose sleep is over runs before the clock moves on.
Advance(d, max) ==
    /\ UNCHANGED notJobs
    /\ UNCHANGED t_log
    /\ ret' = NoRet
    /\ advances < max
    /\ \A c \in cleanups : c.at > now
    /\ now' = now + d
    /\ advances' = advances + 1
    /\ overran' = [s \in Searches |->
                     \/ overran[s]
                     \/ \E p \in Procs : /\ pc[p] # "idle"
                                         /\ cur[p] = s
                                         /\ now' - runstart[p] > JobTimeout]
    /\ UNCHANGED <<active_jobs, cleanups, db, pc, cur, snap, result, due,
                   runstart, opened>>

CleanupFire(c) ==
    /\ UNCHANGED notJobs
    /\ UNCHANGED t_log
    /\ ret' = NoRet
    /\ c \in cleanups
    /\ now >= c.at
    /\ active_jobs' = CleanupJobJobs(active_jobs, c.s)
    /\ cleanups' = cleanups \ {c}
    /\ UNCHANGED <<now, advances, db, pc, cur, snap, result, due, runstart,
                   overran, opened>>

----------------------------------------------------------------------------
(* The tracker's interface called directly, in any order *)

Bool(b) == IF b THEN "true" ELSE "false"

TStartJob(s) ==
    /\ UNCHANGED notJobs
    /\ UNCHANGED t_log
    /\ active_jobs' = StartJobJobs(active_jobs, s, now)
    /\ ret' = [op |-> "start_job", s |-> s, val |-> Bool(StartJob(active_jobs, s, now))]
    /\ opened' = [opened EXCEPT ![s] = @ \/ StartJob(active_jobs, s, now)]
    /\ UNCHANGED <<now, advances, cleanups, db, pc, cur, snap, result, due,
                   runstart, overran>>

TCompleteJob(s, success) ==
    /\ UNCHANGED notJobs
    /\ UNCHANGED t_log
    /\ active_jobs' = CompleteJobJobs(active_jobs, s, success,
                                      IF success THEN "none" ELSE "error")
    /\ cleanups' = CompleteJobTasks(cleanups, active_jobs, s, now)
    /\ ret' = [op |-> "complete_job", s |-> s, val |-> "none"]
    /\ opened' = [opened EXCEPT ![s] = FALSE]
    /\ UNCHANGED <<now, advances, db, pc, cur, snap, result, due, runstart, overran>>

TIsJobRunning(s) ==
    /\ UNCHANGED notJobs
    /\ UNCHANGED t_log
    /\ active_jobs' = IsJobRunningJobs(active_jobs, s, now)
    /\ ret' = [op |-> "is_job_running", s |-> s,
               val |-> Bool(IsJobRunning(active_jobs, s, now))]
    /\ UNCHANGED <<now, advances, cleanups, db, pc, cur, snap, result, due,
                   runstart, overran, opened>>

TCanStartJob(s) ==
    /\ UNCHANGED notJobs
    /\ UNCHANGED t_log
    /\ active_jobs' = IsJobRunningJobs(active_jobs, s, now)
    /\ ret' = [op |-> "can_start_job", s |-> s,
               val |-> CanStartJob(active_jobs, db, s, now)]
    /\ UNCHANGED <<now, advances, cleanups, db, pc, cur, snap, result, due,
                   runstart, overran, opened>>

TMarkScraped(s) ==
    /\ UNCHANGED notJobs
    /\ UNCHANGED t_log
    /\ ret' = NoRet
    /\ db' = MarkScraped(db, s, now)
    /\ UNCHANGED <<now, advances, active_jobs, cleanups, pc, cur, snap, result,
                   due, runstart, overran, opened>>

NoTick == [ok |-> TRUE, failed |-> FALSE]

JobsInit ==
    /\ now = 0
    /\ advances = 0
    /\ active_jobs = [s \in Searches |-> NoJob]
    /\ cleanups = {}
    /\ pc = [p \in Procs |-> "idle"]
    /\ cur = [p \in Procs |-> NoSearch]
    /\ snap = [p \in Procs |-> NewRow(CHOOSE c \in SearchConfigs : c.enabled /\ c.mode = "scheduled")]
    /\ result = [p \in Procs |-> "none"]
    /\ due = <<>>
    /\ runstart = [p \in Procs |-> 0]
    /\ overran = [s \in Searches |-> FALSE]
    /\ opened = [s \in Searches |-> FALSE]
    /\ ret = NoRet
    /\ t_log = NoTick

TrackerInit ==
    /\ JobsInit
    /\ RlInit
    /\ FetchInit
    /\ PipeInit
    /\ LimInit
    /\ MarkRaceInit
    /\ TimerInit
    /\ db = [s \in Searches |-> NewRow(CHOOSE c \in SearchConfigs : c.enabled /\ c.mode = "scheduled")]

\* The job table is keyed by search id and no tracker operation reads another
\* key, so the harness drives one id.
HarnessSearches == {"s1"}

TrackerNext ==
    \/ \E s \in HarnessSearches : TStartJob(s)
    \/ \E s \in HarnessSearches, success \in BOOLEAN : TCompleteJob(s, success)
    \/ \E s \in HarnessSearches : TIsJobRunning(s)
    \/ \E s \in HarnessSearches : TCanStartJob(s)
    \/ \E s \in HarnessSearches : TMarkScraped(s)
    \/ \E c \in cleanups : CleanupFire(c)
    \/ \E d \in TimeSteps : Advance(d, MaxAdvance)

SpecTracker == TrackerInit /\ [][TrackerNext]_vars

----------------------------------------------------------------------------
(* Scheduler tick and on-demand trigger *)

\* The "Update database with job status" blocks re-read the row and save it
\* with a new scraping_status, started/completed time and error only; the rows
\* of the model carry the scheduling fields, which these blocks write back as read.

\* The for loop of process_due_searches from the list lst on, up to the first
\* await of a pipeline (cur = the search whose pipeline now runs) or to the end
\* of the list (cur = NoSearch). raises: the searches for which
\* process_keyword_search raises before its try block.
\* the except block of the loop body ends the loop
AfterFailureAbort(rest) == <<>>

\* the except block of the loop body is inside the for loop: the loop goes on
\* with the rest of the list
AfterFailure(rest) == rest

RECURSIVE TickLoop(_, _, _, _, _, _)
TickLoop(lst, jobs, rows, tasks, raises, t) ==
    IF lst = <<>>
    THEN [jobs |-> jobs, rows |-> rows, tasks |-> tasks, cur |-> NoSearch,
          snap |-> NewRow(CHOOSE c \in SearchConfigs : c.enabled /\ c.mode = "scheduled"),
          rest |-> <<>>, tried |-> <<>>, failed |-> FALSE]
    ELSE LET s == Head(lst).s
             checked == IsJobRunningJobs(jobs, s, t)
             started == StartJobJobs(checked, s, t)
             marked == rows
             r == IF CanStartJob(jobs, rows, s, t) # "ok"
                  THEN TickLoop(Tail(lst), checked, rows, tasks, raises, t)
                  ELSE IF ~StartJob(checked, s, t)
                  THEN TickLoop(Tail(lst), StartJobJobs(checked, s, t), rows, tasks,
                                raises, t)
                  ELSE IF s \in raises
                  THEN IF IsJobRunning(started, s, t)
                       THEN TickLoop(AfterFailure(Tail(lst)),
                                     CompleteJobJobs(started, s, FALSE, "error"),
                                     marked,
                                     CompleteJobTasks(tasks, started, s, t),
                                     raises, t)
                       ELSE TickLoop(AfterFailure(Tail(lst)),
                                     IsJobRunningJobs(started, s, t),
                                     marked, tasks, raises, t)
                  ELSE [jobs |-> started, rows |-> marked, tasks |-> tasks,
                        cur |-> s, snap |-> Head(lst).row, rest |-> Tail(lst),
                        tried |-> <<>>, failed |-> FALSE]
             raised == /\ CanStartJob(jobs, rows, s, t) = "ok"
                       /\ StartJob(checked, s, t)
                       /\ s \in raises
         IN [r EXCEPT !.tried = <<s>> \o @, !.failed = @ \/ raised]

\* the sequences that list the set S once each, in any order
Orders(S) ==
    {q \in [1..Cardinality(S) -> S] : \A i, j \in 1..Cardinality(S) : q[i] = q[j] => i = j}

EnterLoop(r, lst, failed) ==
    /\ t_log' = [ok |-> /\ t_log.ok
                        /\ r.tried \o [i \in 1..Len(r.rest) |-> r.rest[i].s]
                             = [i \in 1..Len(lst) |-> lst[i].s],
                 failed |-> r.cur # NoSearch /\ (failed \/ r.failed)]
    /\ active_jobs' = r.jobs
    /\ db' = r.rows
    /\ cleanups' = r.tasks
    /\ due' = r.rest
    /\ cur' = [cur EXCEPT !["tick"] = r.cur]
    /\ snap' = [snap EXCEPT !["tick"] = r.snap]
    /\ pc' = [pc EXCEPT !["tick"] = IF r.cur = NoSearch THEN "idle" ELSE "run"]
    /\ runstart' = [runstart EXCEPT !["tick"] = IF r.cur = NoSearch THEN 0 ELSE now]
    /\ UNCHANGED opened

\* process_due_searches, from the timer firing to the first pipeline await
TickBegin(order, raises) ==
    /\ UNCHANGED notJobs
    /\ ret' = NoRet
    /\ pc["tick"] = "idle"
    /\ order \in Orders(DueSearches(db, now))
    /\ EnterLoop(TickLoop([i \in 1..Len(order) |-> [s |-> order[i], row |-> db[order[i]]]],
                          active_jobs, db, cleanups, raises, now),
                 [i \in 1..Len(order) |-> [s |-> order[i], row |-> db[order[i]]]],
                 FALSE)
    /\ result' = [result EXCEPT !["tick"] = "none"]
    /\ UNCHANGED <<now, advances, overran>>

\* process_keyword_search from its first await to the await in its finally
\* block: outcome "success" is the path through step 7 (the search handed in is
\* saved with its new last/next scrape time), "error" the except path.
PipelineBody(p, outcome) ==
    /\ UNCHANGED notJobs
    /\ UNCHANGED t_log
    /\ ret' = NoRet
    /\ pc[p] = "run"
    /\ pc' = [pc EXCEPT ![p] = "closing"]
    /\ result' = [result EXCEPT ![p] = outcome]
    /\ db' = IF outcome = "success"
             THEN [db EXCEPT ![cur[p]] =
                      [snap[p] EXCEPT !.last_scrape_at = now,
                                      !.next_scrape_at = NextAfterScrape(snap[p], now)]]
             ELSE db
    /\ UNCHANGED <<now, advances, active_jobs, cleanups, cur, snap, due, runstart,
                   overran, opened>>

\* process_due_searches after the pipeline returned: mark_scraped, complete_job,
\* completion update, then the loop goes on; fails: mark_scraped raises (the
\* storage is down) and the except block of the loop body runs instead
TickReturn(raises, fails) ==
    /\ UNCHANGED notJobs
    /\ ret' = NoRet
    /\ pc["tick"] = "closing"
    /\ LET s == cur["tick"]
           done == CompleteJobJobs(active_jobs, s, TRUE, "none")
       IN IF fails
          THEN EnterLoop(TickLoop(AfterFailure(due),
                                  IF IsJobRunning(active_jobs, s, now)
                                  THEN CompleteJobJobs(active_jobs, s, FALSE, "error")
                                  ELSE IsJobRunningJobs(active_jobs, s, now),
                                  db,
                                  IF IsJobRunning(active_jobs, s, now)
                                  THEN CompleteJobTasks(cleanups, active_jobs, s, now)
                                  ELSE cleanups,
                                  raises, now),
                         due, TRUE)
          ELSE EnterLoop(TickLoop(due, done,
                                  MarkScraped(db, s, now),
                                  CompleteJobTasks(cleanups, active_jobs, s, now),
                                  raises, now),
                         due, t_log.failed)
    /\ result' = [result EXCEPT !["tick"] = "none"]
    /\ UNCHANGED <<now, advances, overran>>

\* trigger_scrape up to the first await of the pipeline
TriggerBegin(p, s, raises) ==
    /\ UNCHANGED notJobs
    /\ UNCHANGED t_log
    /\ p \in Requests
    /\ pc[p] = "idle"
    /\ db[s].enabled
    /\ CanStartJob(active_jobs, db, s, now) = "ok"
    /\ LET checked == IsJobRunningJobs(active_jobs, s, now)
           started == StartJobJobs(checked, s, now)
       IN /\ StartJob(checked, s, now)
          /\ IF raises
             THEN /\ active_jobs' = CompleteJobJobs(started, s, FALSE, "error")
                  /\ cleanups' = CompleteJobTasks(cleanups, started, s, now)
                  /\ db' = db
                  /\ UNCHANGED <<pc, cur, snap, runstart>>
             ELSE /\ active_jobs' = started
                  /\ db' = db
                  /\ pc' = [pc EXCEPT ![p] = "run"]
                  /\ cur' = [cur EXCEPT ![p] = s]
                  /\ snap' = [snap EXCEPT ![p] = db[s]]
                  /\ runstart' = [runstart EXCEPT ![p] = now]
                  /\ UNCHANGED cleanups
    /\ result' = [result EXCEPT ![p] = "none"]
    /\ ret' = NoRet
    /\ UNCHANGED <<now, advances, due, overran, opened>>

\* trigger_scrape refused: disabled (400) or conflict (409); can_start_job has
\* still reaped a stale job
TriggerRefused(p, s) ==
    /\ UNCHANGED notJobs
    /\ UNCHANGED t_log
    /\ p \in Requests
    /\ pc[p] = "idle"
    /\ ~db[s].enabled \/ CanStartJob(active_jobs, db, s, now) # "ok"
    /\ active_jobs' = IF db[s].enabled THEN IsJobRunningJobs(active_jobs, s, now)
                      ELSE active_jobs
    /\ ret' = [op |-> "trigger_scrape", s |-> s,
               val |-> IF ~db[s].enabled THEN "disabled"
                       ELSE CanStartJob(active_jobs, db, s, now)]
    /\ UNCHANGED <<now, advances, cleanups, db, pc, cur, snap, result, due,
                   runstart, overran, opened>>

\* trigger_scrape after the pipeline returned: mark_scraped, complete_job,
\* completion update, ScrapeResponse(**result); the dict of the except path
\* lacks required fields of ScrapeResponse, so building the response raises and
\* the handler's except block completes the job a second time, as failed
TriggerReturn(p) ==
    /\ UNCHANGED notJobs
    /\ UNCHANGED t_log
    /\ ret' = NoRet
    /\ p \in Requests
    /\ pc[p] = "closing"
    /\ LET s == cur[p]
           done == CompleteJobJobs(active_jobs, s, TRUE, "none")
           tasks == CompleteJobTasks(cleanups, active_jobs, s, now)
           rows == MarkScraped(db, s, now)
       IN IF result[p] = "success"
          THEN /\ active_jobs' = done
               /\ cleanups' = tasks
               /\ db' = rows
          ELSE /\ active_jobs' = CompleteJobJobs(done, s, FALSE, "error")
               /\ cleanups' = CompleteJobTasks(tasks, done, s, now)
               /\ db' = rows
    /\ pc' = [pc EXCEPT ![p] = "idle"]
    /\ cur' = [cur EXCEPT ![p] = NoSearch]
    /\ result' = [result EXCEPT ![p] = "none"]
    /\ snap' = [snap EXCEPT ![p] = NewRow(CHOOSE c \in SearchConfigs : c.enabled /\ c.mode = "scheduled")]
    /\ runstart' = [runstart EXCEPT ![p] = 0]
    /\ UNCHANGED <<now, advances, due, overran, opened>>

SchedInit ==
    /\ JobsInit
    /\ RlInit
    /\ FetchInit
    /\ PipeInit
    /\ LimInit
    /\ MarkRaceInit
    /\ TimerInit
    /\ db \in {rows \in [Searches -> {NewRow(c) : c \in SearchConfigs}] :
                  rows["s1"].enabled /\ rows["s1"].mode = "scheduled"}

SchedNext ==
    \/ \E order \in Orders(DueSearches(db, now)) :
          \E raises \in SUBSET DueSearches(db, now) : TickBegin(order, raises)
    \/ \E p \in Procs, outcome \in {"success", "error"} : PipelineBody(p, outcome)
    \* (mark_scraped does not raise here; in TickNext it may)
    \/ \E raises \in SUBSET {due[i].s : i \in 1..Len(due)} : TickReturn(raises, FALSE)
    \/ \E p \in Requests, s \in Searches, raises \in BOOLEAN : TriggerBegin(p, s, raises)
    \/ \E p \in Requests, s \in Searches : TriggerRefused(p, s)
    \/ \E p \in Requests : TriggerReturn(p)
    \/ \E c \in cleanups : CleanupFire(c)
    \/ \E d \in SchedSteps : Advance(d, SchedAdvance)

\* process_keyword_search catches every Exception and returns a dict, so the
\* await of a pipeline ends, and the event loop then resumes the coroutine
\* that awaited it: the tick or the request handler runs to its next await.
SchedFairness ==
    /\ \A p \in Procs : WF_vars(\E outcome \in {"success", "error"} : PipelineBody(p, outcome))
    /\ WF_vars(\E raises \in SUBSET {due[i].s : i \in 1..Len(due)} : TickReturn(raises, FALSE))
    /\ \A p \in Requests : WF_vars(TriggerReturn(p))

SchedLiveInit ==
    /\ SchedInit

SpecSchedLive == SchedLiveInit /\ [][SchedNext]_vars /\ SchedFairness

\* Scheduled searches of every interval the schema accepts, processed by the
\* scheduler while the clock moves to the next run and to one second before it.
DueAdvance == 1      \* clock advances of this specification

Intervals == {"30m", "1h", "6h", "24h"}

DueConfigs == {[enabled |-> TRUE, mode |-> "scheduled", interval |-> i] : i \in Intervals}

DueSteps == UNION {{IntervalSeconds(i) - 1, IntervalSeconds(i)} : i \in Intervals}

DueInit ==
    /\ JobsInit
    /\ RlInit
    /\ FetchInit
    /\ PipeInit
    /\ LimInit
    /\ MarkRaceInit
    /\ TimerInit
    /\ db \in {rows \in [Searches -> {NewRow(c) : c \in DueConfigs}] :
                  rows["s2"].interval = "30m"}

DueNext ==
    \/ \E order \in Orders(DueSearches(db, now)) :
          \E raises \in SUBSET DueSearches(db, now) : TickBegin(order, raises)
    \/ \E p \in Procs, outcome \in {"success", "error"} : PipelineBody(p, outcome)
    \/ \E raises \in SUBSET {due[i].s : i \in 1..Len(due)} : TickReturn(raises, FALSE)
    \/ \E c \in cleanups : CleanupFire(c)
    \/ \E d \in DueSteps : Advance(d, DueAdvance)

SpecDue == DueInit /\ [][DueNext]_vars

----------------------------------------------------------------------------
(* The saves of one run, over rows that also carry the fields a user sets:
   webhook_url and reddit_config *)

NoHook == "none"    \* webhook_url is None
SavedSearches == {"s1"}

\* the reddit_config values of the stored searches: the default, and a limit
\* above reddit_max_posts_per_search
StoredConfigs ==
    { [limit |-> None, comment_limit |-> None, subreddits |-> 0],
      [limit |-> MaxPostsPerSearch + 1, comment_limit |-> None, subreddits |-> 1] }

\* a keyword_searches row with the fields a user sets
FullRow(c, hook, cfg) ==
    [enabled |-> c.enabled, mode |-> c.mode, interval |-> c.interval,
     last_scrape_at |-> None,
     next_scrape_at |-> IF c.mode = "scheduled" THEN 0 ELSE None,
     webhook_url |-> hook, reddit_config |-> cfg]

\* the fields of a row a run is not to change
UserFields(row) ==
    [enabled |-> row.enabled, mode |-> row.mode, interval |-> row.interval,
     webhook_url |-> row.webhook_url, reddit_config |-> row.reddit_config]

\* The "Update database with job status / completion / failure" blocks: the
\* row is read, a KeywordSearchState is built from it field by field, without
\* webhook_url (its default is None), and save_keyword_search writes every
\* column from that state, webhook_url = getattr(state, "webhook_url", None)
StatusUpdate(rows, s) == [rows EXCEPT ![s].webhook_url = NoHook]

\* the PATCH bodies of the model: the search is disabled, its interval changed
SearchUpdates ==
    { [field |-> "enabled", enabled |-> FALSE, interval |-> "none"],
      [field |-> "scraping_interval", enabled |-> FALSE, interval |-> "1h"] }

\* update_search: get_search, setattr per update, next_scrape_at recalculated
\* when the interval is among the updates, save_keyword_search
UpdateSearchRows(rows, s, u, t) ==
    IF u.field = "enabled"
    THEN [rows EXCEPT ![s].enabled = u.enabled]
    ELSE [rows EXCEPT ![s].interval = u.interval,
                      ![s].next_scrape_at =
                          IF rows[s].mode = "scheduled"
                          THEN CalculateNextScrape(t, u.interval)
                          ELSE @]

\* PATCH /keyword-searches/{id}, at any time; ret keeps the update made last
UpdateSearch(s, u) ==
    /\ UNCHANGED notJobs
    /\ UNCHANGED t_log
    /\ s \in SavedSearches
    /\ db' = UpdateSearchRows(db, s, u, now)
    /\ ret' = [op |-> "update_search", s |-> s, val |-> u.field]
    /\ UNCHANGED <<now, advances, active_jobs, cleanups, pc, cur, snap, result, due,
                   runstart, overran, opened>>

\* A run of search s up to the first await of its pipeline: the tick (s is in
\* the list of get_due_searches) or trigger_scrape (s is enabled);
\* can_start_job, start_job, the "job status" update. snap is the state the
\* pipeline is handed: the one of the due list, or of get_search.
RunStart(p, s) ==
    /\ UNCHANGED notJobs
    /\ UNCHANGED t_log
    /\ s \in SavedSearches
    /\ pc[p] = "idle"
    /\ IF p = "tick" THEN IsDue(db[s], now) ELSE db[s].enabled
    /\ CanStartJob(active_jobs, db, s, now) = "ok"
    /\ StartJob(IsJobRunningJobs(active_jobs, s, now), s, now)
    /\ active_jobs' = StartJobJobs(IsJobRunningJobs(active_jobs, s, now), s, now)
    /\ snap' = [snap EXCEPT ![p] = db[s]]
    /\ db' = StatusUpdate(db, s)
    /\ pc' = [pc EXCEPT ![p] = "run"]
    /\ cur' = [cur EXCEPT ![p] = s]
    /\ runstart' = [runstart EXCEPT ![p] = now]
    /\ result' = [result EXCEPT ![p] = "none"]
    /\ ret' = NoRet
    /\ UNCHANGED <<now, advances, cleanups, due, overran, opened>>

\* the state process_keyword_search saves in step 7: the one it was handed,
\* its reddit_config changed in place by the limit enforcement, with the new
\* last and next scrape time
SavedState(state, t) ==
    [state EXCEPT !.reddit_config = EnforceCommentLimit(EnforcePostLimit(@)),
                  !.last_scrape_at = t,
                  !.next_scrape_at = NextAfterScrape(state, t)]

\* process_keyword_search from its first await on: "success" is the path
\* through step 7, "error" the except path, which saves nothing
RunPipeline(p, outcome) ==
    /\ UNCHANGED notJobs
    /\ UNCHANGED t_log
    /\ pc[p] = "run"
    /\ cur[p] \in SavedSearches
    /\ pc' = [pc EXCEPT ![p] = "closing"]
    /\ result' = [result EXCEPT ![p] = outcome]
    /\ db' = IF outcome = "success"
             THEN [db EXCEPT ![cur[p]] = SavedState(snap[p], now)]
             ELSE db
    /\ UNCHANGED <<now, advances, active_jobs, cleanups, cur, snap, due, runstart,
                   overran, opened, ret>>

\* After the pipeline returned: mark_scraped, complete_job(success=True), the
\* "completion" update; in trigger_scrape the dict of the except path then
\* makes ScrapeResponse raise, and the handler's except block runs
\* complete_job(success=False) and the "failure" update.
RunFinish(p) ==
    /\ UNCHANGED notJobs
    /\ UNCHANGED t_log
    /\ pc[p] = "closing"
    /\ cur[p] \in SavedSearches
    /\ LET s == cur[p]
           done == CompleteJobJobs(active_jobs, s, TRUE, "none")
           tasks == CompleteJobTasks(cleanups, active_jobs, s, now)
           rows == StatusUpdate(MarkScraped(db, s, now), s)
       IN IF p = "tick" \/ result[p] = "success"
          THEN /\ active_jobs' = done
               /\ cleanups' = tasks
               /\ db' = rows
          ELSE /\ active_jobs' = CompleteJobJobs(done, s, FALSE, "error")
               /\ cleanups' = CompleteJobTasks(tasks, done, s, now)
               /\ db' = StatusUpdate(rows, s)
    /\ pc' = [pc EXCEPT ![p] = "idle"]
    /\ cur' = [cur EXCEPT ![p] = NoSearch]
    /\ result' = [result EXCEPT ![p] = "none"]
    /\ UNCHANGED <<now, advances, snap, due, runstart, overran, opened, ret>>

SavesInit ==
    /\ JobsInit
    /\ RlInit
    /\ FetchInit
    /\ PipeInit
    /\ LimInit
    /\ MarkRaceInit
    /\ TimerInit
    /\ db \in {rows \in [Searches -> {FullRow(c, hook, cfg) :
                                        c \in SearchConfigs,
                                        hook \in {NoHook, "hook"},
                                        cfg \in StoredConfigs}] :
                  /\ rows["s1"].enabled
                  /\ rows["s2"] = FullRow(CHOOSE c \in SearchConfigs : ~c.enabled,
                                          NoHook,
                                          CHOOSE cfg \in StoredConfigs : cfg.limit = None)}

SavesNext ==
    \/ \E p \in Procs, s \in Searches : RunStart(p, s)
    \/ \E p \in Procs, outcome \in {"success", "error"} : RunPipeline(p, outcome)
    \/ \E p \in Procs : RunFinish(p)
    \/ \E s \in Searches, u \in SearchUpdates : UpdateSearch(s, u)

SpecSaves == SavesInit /\ [][SavesNext]_vars

----------------------------------------------------------------------------
LeadsSpecInit ==
    /\ TrackerInit

SpecLeads == LeadsSpecInit /\ [][LeadsNext]_vars

\* The tick over searches that are scheduled, disabled or one_time, while the
\* clock moves to the next run and to one second before it.
QuerySpecInit ==
    /\ SchedInit

QueryNext ==
    \/ \E order \in Orders(DueSearches(db, now)) :
          \E raises \in SUBSET DueSearches(db, now) : TickBegin(order, raises)
    \/ \E p \in Procs, outcome \in {"success", "error"} : PipelineBody(p, outcome)
    \/ \E raises \in SUBSET {due[i].s : i \in 1..Len(due)} : TickReturn(raises, FALSE)
    \/ \E c \in cleanups : CleanupFire(c)
    \/ \E d \in DueSteps : Advance(d, DueAdvance)

SpecQuery == QuerySpecInit /\ [][QueryNext]_vars

(* The interval trigger: add_job(self.process_due_searches, IntervalTrigger) *)

MaxFirings == 3      \* firings of the interval trigger in a behaviour

\* add_job is given no max_instances: the job runs with the scheduler's default
MaxInstances == 1

\* the instances of the job that are still running
Running(inst) == {i \in TimerInstances : inst[i].pc # "idle"}

\* an executor that takes every firing
InstanceAllowedAlways(inst) == TRUE

\* the executor's test on a firing: it runs the job unless max_instances
\* instances of it are running, and skips the firing otherwise
InstanceAllowed(inst) == Cardinality(Running(inst)) < MaxInstances

\* what the instance is at after the loop r of process_due_searches
InstanceAfter(r) ==
    IF r.cur = NoSearch THEN NoInstance
    ELSE [pc |-> "run", cur |-> r.cur, rest |-> r.rest]

\* the trigger fires: the firing is skipped, or the instance i of the job runs
\* process_due_searches up to the first pipeline await
TimerFire(i, order, raises) ==
    /\ UNCHANGED notTimer
    /\ UNCHANGED <<now, ret>>
    /\ k_fired < MaxFirings
    /\ k_fired' = k_fired + 1
    /\ IF ~InstanceAllowed(k_inst)
       THEN /\ k_last' = "skipped"
            /\ UNCHANGED <<active_jobs, db, cleanups, k_inst>>
       ELSE /\ k_inst[i].pc = "idle"
            /\ order \in Orders(DueSearches(db, now))
            /\ LET r == TickLoop([n \in 1..Len(order) |->
                                     [s |-> order[n], row |-> db[order[n]]]],
                                 active_jobs, db, cleanups, raises, now)
               IN /\ active_jobs' = r.jobs
                  /\ db' = r.rows
                  /\ cleanups' = r.tasks
                  /\ k_inst' = [k_inst EXCEPT ![i] = InstanceAfter(r)]
            /\ k_last' = "ran"

\* the pipeline the instance i awaits returned (a successful pipeline has saved
\* the search with the times mark_scraped then writes again): mark_scraped,
\* complete_job, and the loop goes on
TimerReturn(i, raises) ==
    /\ UNCHANGED notTimer
    /\ UNCHANGED <<now, ret, k_fired, k_last>>
    /\ k_inst[i].pc = "run"
    /\ LET s == k_inst[i].cur
           r == TickLoop(k_inst[i].rest,
                         CompleteJobJobs(active_jobs, s, TRUE, "none"),
                         MarkScraped(db, s, now),
                         CompleteJobTasks(cleanups, active_jobs, s, now),
                         raises, now)
       IN /\ active_jobs' = r.jobs
          /\ db' = r.rows
          /\ cleanups' = r.tasks
          /\ k_inst' = [k_inst EXCEPT ![i] = InstanceAfter(r)]

TimerNext ==
    \/ \E i \in TimerInstances, order \in Orders(DueSearches(db, now)),
          raises \in SUBSET DueSearches(db, now) : TimerFire(i, order, raises)
    \/ \E i \in TimerInstances :
          \E raises \in SUBSET {k_inst[i].rest[n].s : n \in 1..Len(k_inst[i].rest)} :
             TimerReturn(i, raises)
    \/ \E c \in cleanups : CleanupFire(c)
    \/ \E d \in SchedSteps : Advance(d, SchedAdvance)

TimerSpecInit ==
    /\ SchedInit

SpecTimer == TimerSpecInit /\ [][TimerNext]_vars

RlSpecInit ==
    /\ TrackerInit

SpecRl == RlSpecInit /\ [][RlNext]_vars

\* The event loop ends every asyncio.sleep (time advances), and asyncio.Lock
\* wakes its waiters first come, first served, so every caller that queues
\* for the lock gets it.
RlFairness ==
    \A c \in Callers :
        /\ SF_vars(RlAcquire(c))
        /\ WF_vars(\E late \in Lateness : RlWakeDelay(c, late))
        /\ WF_vars(\E late \in Lateness : RlWakeWindow(c, late))

RlLiveInit ==
    /\ TrackerInit

SpecRlLive == RlLiveInit /\ [][RlNext]_vars /\ RlFairness

FetchSpecInit ==
    /\ TrackerInit

SpecFetch == FetchSpecInit /\ [][FetchNext]_vars

ScenarioSpecInit ==
    /\ TrackerInit

SpecScenario == ScenarioSpecInit /\ [][ScenarioNext]_vars

LedgerSpecInit ==
    /\ TrackerInit

SpecLedger == LedgerSpecInit /\ [][LedgerNext]_vars

\* mark_content_scraped called in any order, for the keys of two searches,
\* while the clock moves on
MarkSteps == {1}

MarkNext ==
    \/ \E s \in Searches, source \in Sources, source_id \in ItemIds,
          created_lead \in BOOLEAN : LMark(s, source, source_id, created_lead)
    \/ \E d \in MarkSteps : Advance(d, SchedAdvance)

MarkSpecInit ==
    /\ TrackerInit

SpecMark == MarkSpecInit /\ [][MarkNext]_vars

PipeSpecInit ==
    /\ TrackerInit

SpecPipe == PipeSpecInit /\ [][PipeNext]_vars

StoreSpecInit ==
    /\ TrackerInit

SpecStore == StoreSpecInit /\ [][StoreNext]_vars

MarkRaceSpecInit ==
    /\ TrackerInit

SpecMarkRace == MarkRaceSpecInit /\ [][MarkRaceNext]_vars

SpecSched == SchedInit /\ [][SchedNext]_vars

\* a run for a search created with any of the configs of the model
LimitSpecInit ==
    /\ JobsInit
    /\ RlInit
    /\ FetchInit
    /\ PipeInit
    /\ db = [s \in Searches |-> NewRow(CHOOSE c \in SearchConfigs : c.enabled /\ c.mode = "scheduled")]
    /\ lim_pc = "created"
    /\ lim_cfg \in LimitConfigs
    /\ lim_got = 0
    /\ MarkRaceInit
    /\ TimerInit

SpecLimits == LimitSpecInit /\ [][LimNext]_vars

\* The tick and the trigger at one instant, with a storage that may fail at
\* the completion step of the tick
TickNext ==
    \/ \E order \in Orders(DueSearches(db, now)) :
          \E raises \in SUBSET DueSearches(db, now) : TickBegin(order, raises)
    \/ \E p \in Procs, outcome \in {"success", "error"} : PipelineBody(p, outcome)
    \/ \E raises \in SUBSET {due[i].s : i \in 1..Len(due)}, fails \in BOOLEAN :
          TickReturn(raises, fails)
    \/ \E p \in Requests, s \in Searches, raises \in BOOLEAN : TriggerBegin(p, s, raises)
    \/ \E p \in Requests, s \in Searches : TriggerRefused(p, s)
    \/ \E p \in Requests : TriggerReturn(p)

TickSpecInit ==
    /\ SchedInit

SpecTick == TickSpecInit /\ [][TickNext]_vars

----------------------------------------------------------------------------
(* Claims about the job tracker, the scheduler and the trigger *)

\* the processes whose pipeline run for search s is in progress: started by a
\* successful start_job, not yet through the caller's completion step
RunsOf(s) == {p \in Procs : pc[p] # "idle" /\ cur[p] = s}

\* C1, as stated: for every search id, at no point are two pipeline runs for
\* that search in progress at the same time, for runs of any duration, runs
\* longer than the job timeout ceiling included.
C1_NoTwoRunsAnyDuration ==
    \A s \in Searches : Cardinality(RunsOf(s)) <= 1

\* C1, amended: for every search id, two pipeline runs for that search are
\* never in progress at the same time as long as no run of that search has
\* been in progress for more than the timeout ceiling (7200 s).
C1_NoTwoRunsWithinTimeout ==
    \A s \in Searches : ~overran[s] => Cardinality(RunsOf(s)) <= 1

\* C1 witness: a run of a search is in progress within the ceiling and a
\* trigger for the same search has just been refused as already running.
C1_Witness ==
    \E s \in Searches :
        /\ RunsOf(s) = {"tick"}
        /\ ~overran[s]
        /\ ret = [op |-> "trigger_scrape", s |-> s, val |-> "running"]

\* C2, as stated: two start_job calls for a search with no complete_job in
\* between succeed exactly once: a call made before any other succeeds and
\* creates a running job, a call made after a successful one returns false and
\* leaves the job table unchanged.
C2_SecondStartRefused ==
    [][\A s \in HarnessSearches :
          TStartJob(s) =>
             IF opened[s]
             THEN ret'.val = "false" /\ active_jobs' = active_jobs
             ELSE /\ ret'.val = "true"
                  /\ active_jobs'[s] =
                        [status |-> "running", started_at |-> now, error |-> "none"]]_vars

\* C2, amended: two start_job calls for a search with no complete_job in
\* between, the second made while the job of the first is in the table and at
\* most the timeout ceiling (7200 s) old, succeed exactly once: the first
\* returns true and creates a running job, the second returns false and leaves
\* the job (status and start time) unchanged.
C2_SecondStartRefusedWithinTimeout ==
    [][\A s \in HarnessSearches :
          TStartJob(s) =>
             IF opened[s]
             THEN (/\ active_jobs[s].status # "absent"
                   /\ now - active_jobs[s].started_at <= JobTimeout)
                  => (ret'.val = "false" /\ active_jobs' = active_jobs)
             ELSE /\ ret'.val = "true"
                  /\ active_jobs'[s] =
                        [status |-> "running", started_at |-> now, error |-> "none"]]_vars

\* C2 witness: a second start_job was refused while the job of the first,
\* started earlier, is still running.
C2_Witness ==
    \E s \in HarnessSearches :
        /\ opened[s]
        /\ ret = [op |-> "start_job", s |-> s, val |-> "false"]
        /\ active_jobs[s].status = "running"
        /\ active_jobs[s].started_at < now

----------------------------------------------------------------------------
(* Claims about the rate limiter *)

\* C3: over any rolling 60-second interval the number of recorded
\* acquisitions never exceeds the cap: every recorded timestamp has at most
\* MaxRequests recorded timestamps (itself included) in the 60 seconds that end
\* with it, for any number of callers, arrival pattern and lateness of wake-ups.
C3_WindowBound ==
    \A i \in 1..Len(rl_log) :
        Cardinality({j \in 1..i : rl_log[i] - rl_log[j] <= Window}) <= MaxRequests

\* C3 witness: the cap was reached, a caller slept for the window while
\* another queued for the lock, and an acquisition was recorded right after
\* the window of the one MaxRequests before it had passed.
C3_Witness ==
    /\ \E i \in 1..Len(rl_log) :
          /\ i + MaxRequests <= Len(rl_log)
          /\ rl_log[i + MaxRequests] - rl_log[i] = Window + Buffer
    /\ \E c \in Callers : rl_pc[c] = "waiting"

----------------------------------------------------------------------------
(* Claims about the fetch orchestrator *)

RECURSIVE PostsOfSucceeded(_)
\* the posts of the subreddits whose fetch succeeded, in list order
PostsOfSucceeded(log) ==
    IF log = <<>> THEN <<>>
    ELSE (IF Head(log).failed THEN <<>> ELSE Head(log).got)
            \o PostsOfSucceeded(Tail(log))

\* C4: whatever subset of the targets fails, scrape_posts and
\* scrape_with_comments return (they end in "done", no exception leaves them),
\* every target of the list was fetched in list order, and the posts returned
\* are the concatenation, in target order, of the posts of the targets that
\* succeeded; while the call runs, the posts gathered so far are kept.
C4_PartialFailureIsolation ==
    /\ all_posts = PostsOfSucceeded(f_log)
    /\ f_pc = "done" =>
          /\ Len(f_log) = Len(Effective(f_cfg))
          /\ \A k \in 1..Len(f_log) : f_log[k].sub = Effective(f_cfg)[k]

\* C4 witness: a call over three targets returned; the second target failed,
\* the first and the third succeeded with posts, and all their posts are in
\* the result.
C4_Witness ==
    /\ f_pc = "done"
    /\ Len(f_log) = 3
    /\ ~f_log[1].failed /\ f_log[1].got # <<>>
    /\ f_log[2].failed
    /\ ~f_log[3].failed /\ f_log[3].got # <<>>
    /\ all_posts = f_log[1].got \o f_log[3].got

\* C5, as stated: the metrics record emitted for a target whose fetch failed
\* is a failure record: subreddits_failed = 1, subreddits_succeeded = 0, and
\* the error text is in it.
C5_FailureRecord ==
    \A k \in 1..Len(f_recorded) :
        f_log[k].failed =>
            /\ f_recorded[k].subreddits_failed = 1
            /\ f_recorded[k].subreddits_succeeded = 0
            /\ f_recorded[k].errors # <<>>

\* C6: a fetch of a target or of a post's comments whose connector fails with
\* a transient error on every attempt makes exactly RetryAttempts attempts and
\* then ends as failed; no retry loop ever makes more than RetryAttempts.
C6_RetryCeiling ==
    /\ f_att < RetryAttempts
    /\ f_last.attempts <= RetryAttempts
    /\ f_last.transient_only => f_last.attempts = RetryAttempts /\ f_last.failed

\* C6 witness: a comment fetch has just ended after RetryAttempts transient
\* errors, and the call went on.
C6_Witness ==
    /\ f_last.kind = "comments"
    /\ f_last.transient_only
    /\ f_last.attempts = RetryAttempts
    /\ \E k \in 1..Len(f_log) : f_log[k].failed

----------------------------------------------------------------------------
(* Claims about the dedup ledger and the pipeline *)

\* C7: once filter_already_scraped(search, ..) has returned an item that
\* carries an id and mark_content_scraped was then called with that search,
\* the item's source and the item's id, no later filter_already_scraped call
\* for that search returns the item (every filter call changes l_ret).
C7_FilterMarkFilter ==
    [][l_ret' # l_ret =>
          \A item \in Range(l_ret'.out) : <<l_ret'.s, item>> \notin l_fm]_vars

\* C7 witness: an item was returned by a filter call and then marked, and the
\* last filter call for the same search was handed the item and dropped it.
C7_Witness ==
    \E pair \in l_fm :
        /\ l_ret.s = pair[1]
        /\ pair[2] \in l_ret.dropped

\* C8, as stated: at the end of a pipeline run every candidate handed to
\* analysis in that run is recorded in the ledger of the search, whether it
\* produced a lead or was rejected.
C8_CandidatesMarked ==
    \A k \in 1..Len(p_run.handed) :
        <<p_run.handed[k].source, p_run.handed[k].source_id>>
            \in ScrapedIds(ledger, p_run.s)

\* C9, as stated: a run of a search that fetches the items the previous
\* completed run of that search fetched has no item left after the dedup
\* filter.
C9_SecondRunNothingNew ==
    p_run.again => p_run.fresh = <<>>

----------------------------------------------------------------------------
(* Claim about the outcome of a failed pipeline *)

\* C10, as stated: when the pipeline of a search fails as a whole (the except
\* path of process_keyword_search), the completion step of the scheduler tick
\* or of the trigger leaves the job of that search in status failed with the
\* error recorded, never in status completed.
C10_PipelineFailureEndsFailed ==
    [][\A p \in Procs :
          (pc[p] = "closing" /\ result[p] = "error" /\ pc'[p] # "closing")
             => /\ active_jobs'[cur[p]].status = "failed"
                /\ active_jobs'[cur[p]].error = "error"]_vars

----------------------------------------------------------------------------
(* Claims about the cooldown and the stale-job reaper *)

\* C11: with no active job for the search, can_start_job refuses with the
\* cooldown reason whenever now - last_scrape_at < cooldown and accepts
\* otherwise: refused one second before the cooldown has passed, accepted at
\* exactly the cooldown and one second after it, and accepted for a search that
\* has never run (the call leaves the clock and the stored search alone).
C11_CooldownBoundary ==
    \A s \in HarnessSearches :
        (/\ ret.op = "can_start_job"
         /\ ret.s = s
         /\ active_jobs[s].status \notin {"running", "starting"})
        => /\ ret.val \in {"ok", "cooldown"}
           /\ ret.val = "cooldown" <=>
                 /\ db[s].last_scrape_at # None
                 /\ now - db[s].last_scrape_at < CooldownMinutes * SecondsPerMinute
           /\ db[s].last_scrape_at = None => ret.val = "ok"

\* C11 witness: can_start_job has just accepted a search with no active job
\* whose last scrape was exactly the cooldown ago.
C11_Witness ==
    \E s \in HarnessSearches :
        /\ ret = [op |-> "can_start_job", s |-> s, val |-> "ok"]
        /\ active_jobs[s].status \notin {"running", "starting"}
        /\ db[s].last_scrape_at # None
        /\ now - db[s].last_scrape_at = CooldownMinutes * SecondsPerMinute

\* C11, the other cases: refused one second before the cooldown has passed,
\* accepted one second after it, accepted for a search that has never run
C11_RefusedBefore ==
    \E s \in HarnessSearches :
        /\ ret = [op |-> "can_start_job", s |-> s, val |-> "cooldown"]
        /\ db[s].last_scrape_at # None
        /\ now - db[s].last_scrape_at = CooldownMinutes * SecondsPerMinute - 1

C11_AcceptedAfter ==
    \E s \in HarnessSearches :
        /\ ret = [op |-> "can_start_job", s |-> s, val |-> "ok"]
        /\ db[s].last_scrape_at # None
        /\ now - db[s].last_scrape_at = CooldownMinutes * SecondsPerMinute + 1

C11_AcceptedNeverRun ==
    \E s \in HarnessSearches :
        /\ ret = [op |-> "can_start_job", s |-> s, val |-> "ok"]
        /\ db[s].last_scrape_at = None

\* the times at which complete_job ended a job of search s whose cleanup task
\* is still pending (a cleanup task runs CleanupDelay after complete_job)
JobEnds(s) == {c.at - CleanupDelay : c \in {x \in cleanups : x.s = s}}

\* C12, as stated: a run of a search that the tick or the trigger starts
\* (can_start_job, then start_job) begins at least the cooldown after the end
\* of the previous job of that search, whether that job was completed, failed,
\* or is reaped as stale.
C12_StartAfterCooldown ==
    [][\A p \in Procs, s \in Searches :
          (pc'[p] = "run" /\ cur'[p] = s /\ ~(pc[p] = "run" /\ cur[p] = s))
             => /\ ~Stale(active_jobs[s], now)
                /\ \A e \in JobEnds(s) :
                      now - e >= CooldownMinutes * SecondsPerMinute]_vars

\* C13: is_job_running called for a job in status running that started more
\* than the timeout ceiling (7200 s) ago returns false and leaves the job in
\* status failed with the timeout error, with no complete_job call involved;
\* called for a running job that started at most 7200 s ago it returns true
\* and leaves the job table as it was.
C13_StaleJobReaped ==
    [][\A s \in HarnessSearches :
          (TIsJobRunning(s) /\ active_jobs[s].status = "running")
             => IF now - active_jobs[s].started_at > JobTimeout
                THEN /\ ret'.val = "false"
                     /\ active_jobs'[s].status = "failed"
                     /\ active_jobs'[s].error = "timeout"
                     /\ active_jobs'[s].started_at = active_jobs[s].started_at
                ELSE /\ ret'.val = "true"
                     /\ active_jobs' = active_jobs]_vars

\* C13 witness: is_job_running has just returned false for a job started more
\* than 7200 s ago, no complete_job was called since its start_job, and the
\* job is now failed with the timeout error.
C13_Witness ==
    \E s \in HarnessSearches :
        /\ ret = [op |-> "is_job_running", s |-> s, val |-> "false"]
        /\ opened[s]
        /\ active_jobs[s].status = "failed"
        /\ active_jobs[s].error = "timeout"
        /\ now - active_jobs[s].started_at > JobTimeout

\* C13, the boundary: a job exactly 7200 s old is reported running
C13_RunningAtCeiling ==
    \E s \in HarnessSearches :
        /\ ret = [op |-> "is_job_running", s |-> s, val |-> "true"]
        /\ active_jobs[s].status = "running"
        /\ now - active_jobs[s].started_at = JobTimeout

----------------------------------------------------------------------------
(* Claim about the minimum delay of the rate limiter *)

\* C14: any two acquisitions recorded one after the other by the rate limiter
\* are at least the minimum request delay apart, whatever the number of
\* callers, their arrival pattern and the lateness of wake-ups.
C14_MinimumSpacing ==
    \A i \in 1..(Len(rl_log) - 1) : rl_log[i + 1] - rl_log[i] >= RateLimitDelay

\* C14 witness: two acquisitions were recorded exactly the minimum delay
\* apart, the second by a caller that entered right after the first and slept
\* for the delay; the next caller is asleep for the delay in turn while
\* another queues for the lock.
C14_Witness ==
    /\ Len(rl_log) >= 2
    /\ rl_log[Len(rl_log)] - rl_log[Len(rl_log) - 1] = RateLimitDelay
    /\ \E c \in Callers : /\ rl_pc[c] = "sleep_delay"
                          /\ rl_wake = rl_last + RateLimitDelay
    /\ \E c \in Callers : rl_pc[c] = "waiting"

----------------------------------------------------------------------------
(* Claim about failed comment fetches *)

RECURSIVE CommentsOfSucceeded(_)
\* the comments of the posts whose comment fetch succeeded, in fetch order
CommentsOfSucceeded(log) ==
    IF log = <<>> THEN <<>>
    ELSE (IF Head(log).failed THEN <<>> ELSE Head(log).got)
            \o CommentsOfSucceeded(Tail(log))

\* C15: with include_comments on, whatever subset of the comment fetches
\* fails, every post fetched is in the result, the posts whose comment fetch
\* failed included, the comments in the result are those of the posts whose
\* comment fetch succeeded, and once the call has returned the comments of
\* every post of every target were asked for, in order, and every target of
\* the list was fetched.
C15_CommentFailureIsolation ==
    (f_fn = "scrape_with_comments" /\ f_inc) =>
        /\ \A k \in 1..Len(f_clog) : f_clog[k].post \in Range(all_posts)
        /\ all_comments = CommentsOfSucceeded(f_clog)
        /\ f_pc = "done" =>
              /\ [k \in 1..Len(f_clog) |-> f_clog[k].post] = all_posts
              /\ Len(f_log) = Len(Effective(f_cfg))

\* C15 witness: a call with comments returned; the comment fetch of the first
\* post of a target failed, that of the second post of the same target
\* succeeded with comments, and a later target gave a post too.
C15_Witness ==
    /\ f_fn = "scrape_with_comments" /\ f_inc
    /\ f_pc = "done"
    /\ Len(f_clog) >= 3
    /\ f_clog[1].failed
    /\ ~f_clog[2].failed /\ f_clog[2].got # <<>>
    /\ f_clog[1].post.sub = f_clog[2].post.sub
    /\ f_clog[3].post.sub # f_clog[1].post.sub
    /\ f_clog[1].post \in Range(all_posts)
    /\ all_comments # <<>>

----------------------------------------------------------------------------
(* Claim about the composite key of the ledger *)

\* at most one record per (search, source, source_id)
UniqueKey(led) ==
    \A e1, e2 \in led :
        (e1.search = e2.search /\ e1.source = e2.source /\ e1.source_id = e2.source_id)
           => e1 = e2

----------------------------------------------------------------------------
(* Claim about failures inside a scheduler tick *)

\* C17: within one tick, whatever fails while a due search is processed (the
\* pipeline returns an error, process_keyword_search raises, the completion
\* step raises), the loop goes on: each time the loop runs, from the start of
\* the tick or from the return of a pipeline, the searches it reaches followed
\* by the rest it keeps for later are the list it was at, in order, and the
\* tick ends only with nothing left.
C17_TickGoesOn ==
    /\ t_log.ok
    /\ pc["tick"] = "idle" => due = <<>>

\* C17 witness: the tick awaits the pipeline of a search after the processing
\* of an earlier search of its list failed, and the failed search's job is
\* left failed.
C17_Witness ==
    /\ pc["tick"] = "run"
    /\ t_log.failed
    /\ \E s \in Searches \ {cur["tick"]} :
          /\ active_jobs[s].status = "failed"
          /\ active_jobs[s].error = "error"

----------------------------------------------------------------------------
(* Claim about refused triggers *)

\* the job of search s is running and within the timeout ceiling
ActiveJob(s) ==
    /\ active_jobs[s].status \in {"running", "starting"}
    /\ now - active_jobs[s].started_at <= JobTimeout

\* the search s was scraped less than the cooldown ago
InCooldown(s) ==
    /\ db[s].last_scrape_at # None
    /\ now - db[s].last_scrape_at < CooldownMinutes * SecondsPerMinute

\* a step in which trigger_scrape for search s is refused: the reason is that
\* of the first of disabled, already running, cooldown that applies, the
\* request is over within the step (no process changes position, no time
\* passes, no task is created), and no pipeline is started
RefusedAtOnce(s) ==
    /\ ret'.val = IF ~db[s].enabled THEN "disabled"
                  ELSE IF ActiveJob(s) THEN "running"
                  ELSE "cooldown"
    /\ ret'.val = "cooldown" => InCooldown(s)
    /\ pc' = pc /\ cur' = cur /\ due' = due
    /\ now' = now /\ cleanups' = cleanups /\ db' = db

\* a trigger starts a pipeline for search s only if s is enabled, has no
\* active job and is out of its cooldown
StartsOnlyIfFree ==
    \A p \in Requests, s \in Searches :
        (pc[p] = "idle" /\ pc'[p] = "run" /\ cur'[p] = s)
           => (db[s].enabled /\ ~ActiveJob(s) /\ ~InCooldown(s))

\* C18, as stated: a trigger_scrape for a search that is disabled, has a
\* running job or is inside its cooldown is rejected at once with the
\* corresponding reason, starts no pipeline, and leaves the job table
\* unchanged.
C18_RefusedTableUnchanged ==
    [][/\ StartsOnlyIfFree
       /\ ret'.op = "trigger_scrape" =>
             /\ RefusedAtOnce(ret'.s)
             /\ active_jobs' = active_jobs]_vars

\* C18, amended: ... and leaves the job table unchanged, except that a job of
\* the search that has been running for more than the timeout ceiling is
\* marked failed with the timeout error when the search is enabled.
C18_RefusedTableUnchangedButReaped ==
    [][/\ StartsOnlyIfFree
       /\ ret'.op = "trigger_scrape" =>
             /\ RefusedAtOnce(ret'.s)
             /\ active_jobs' =
                   IF /\ db[ret'.s].enabled
                      /\ active_jobs[ret'.s].status \in {"running", "starting"}
                      /\ now - active_jobs[ret'.s].started_at > JobTimeout
                   THEN [active_jobs EXCEPT ![ret'.s].status = "failed",
                                            ![ret'.s].error = "timeout"]
                   ELSE active_jobs]_vars

\* C18 witness: a trigger has just been refused for the cooldown while the
\* tick's run of the search, started more than 7200 s ago, is still in
\* progress; its job is now failed with the timeout error.
C18_Witness ==
    \E s \in Searches :
        /\ ret = [op |-> "trigger_scrape", s |-> s, val |-> "cooldown"]
        /\ RunsOf(s) = {"tick"}
        /\ active_jobs[s].status = "failed"
        /\ active_jobs[s].error = "timeout"

\* C18, the other refusals: a disabled search, and a search inside its
\* cooldown with no job in the table
C18_RefusedDisabled ==
    \E s \in Searches : ret = [op |-> "trigger_scrape", s |-> s, val |-> "disabled"]

C18_RefusedCooldown ==
    \E s \in Searches :
        /\ ret = [op |-> "trigger_scrape", s |-> s, val |-> "cooldown"]
        /\ active_jobs[s].status = "completed"

----------------------------------------------------------------------------
(* Claims about the fetch ceilings *)

\* C19, as stated: after the limit enforcement of the pipeline, the post limit
\* per target times the number of targets (an empty list counts as one) is at
\* most the configured maximum posts per search, for every requested limit
\* and every number of targets.
C19_PostCeiling ==
    lim_pc # "created" =>
        GetLimit(lim_cfg) * NumSubreddits(lim_cfg) <= MaxPostsPerSearch

\* C20, as stated: the number of comments fetched for a post is at most the
\* configured maximum comments per post, for every requested comment_limit
\* that is an integer >= 0.
C20_CommentCeiling ==
    lim_pc = "fetched" => lim_got <= MaxCommentsPerPost

----------------------------------------------------------------------------
(* Claim about non-transient fetch failures *)

\* C21: an attempt of a target's or a post's fetch that fails with a
\* non-transient error is never retried: every attempt that was followed by
\* another one failed with a transient error, a non-transient failure is the
\* last attempt of its retry loop, and when the first attempt fails so the
\* connector was called exactly once (after one rate-limiter acquisition), the
\* fetch ends as failed and the error is logged for that target or post and
\* for no other.
C21_FatalNotRetried ==
    /\ \A k \in 1..Len(f_outs) : f_outs[k] = "transient"
    /\ \A k \in 1..Len(f_last.outcomes) :
          f_last.outcomes[k] = "fatal" => k = Len(f_last.outcomes)
    /\ f_last.attempts = Len(f_last.outcomes)
    /\ f_last.logged \in {NoSubject, f_last.subject}
    /\ (f_last.outcomes # <<>> /\ f_last.outcomes[1] = "fatal") =>
          /\ f_last.attempts = 1
          /\ f_last.acquired = 1
          /\ f_last.failed
          /\ f_last.logged = f_last.subject

\* C21 witness: the comment fetch of a post has just ended on a non-transient
\* error at its first attempt, after the posts of its target were fetched.
C21_Witness ==
    /\ f_last.kind = "comments"
    /\ f_last.outcomes = <<"fatal">>
    /\ f_last.attempts = 1
    /\ f_last.subject \in Range(all_posts)

\* C21, the other cases: a target's fetch ended at once on a non-transient
\* error, and a non-transient error ended a loop after a transient one
C21_TargetFatal ==
    /\ f_last.kind = "posts"
    /\ f_last.outcomes = <<"fatal">>

C21_FatalAfterTransient ==
    f_last.outcomes = <<"transient", "fatal">>

----------------------------------------------------------------------------
(* Claim about the critical section of the rate limiter *)

\* the callers between their purge-and-count step and their record step:
\* asleep for the minimum delay or for the window
InSection == {c \in Callers : rl_pc[c] \in {"sleep_delay", "sleep_window"}}

\* the callers that return from wait_if_needed in a step
Returning == {c \in Callers : rl_pc[c] # "idle" /\ rl_pc'[c] = "idle"}

\* C22: check, wait and record of one acquisition form one critical section:
\* at most one caller is inside wait_if_needed past the lock, and it is the
\* lock holder; while it is there (asleep for the minimum delay or for the
\* window) no step of another caller purges, counts or records (the
\* timestamps, the last request time and the record change only in steps of
\* the holder, and the other callers only queue); a step records at most one
\* timestamp, every return of a call that waited records exactly one, and a
\* timestamp recorded with no such return is that of a call that found the
\* lock free and had nothing to wait for, so no acquisition is counted twice
\* or missed.
C22_CriticalSection ==
    /\ [](InSection = IF rl_holder = NoCaller THEN {} ELSE {rl_holder})
    /\ [](rl_log # <<>> =>
             /\ rl_ts # <<>>
             /\ rl_ts[Len(rl_ts)] = rl_log[Len(rl_log)]
             /\ rl_last = rl_log[Len(rl_log)])
    /\ [][/\ \A c \in InSection :
                /\ (rl_ts' # rl_ts \/ rl_last' # rl_last \/ rl_log' # rl_log)
                      => rl_pc'[c] # rl_pc[c]
                /\ \A x \in Callers \ {c} :
                      rl_pc'[x] # rl_pc[x] => rl_pc'[x] = "waiting"
          /\ Cardinality(Returning) <= 1
          /\ Len(rl_log') - Len(rl_log) \in {0, 1}
          /\ Returning # {} => Len(rl_log') = Len(rl_log) + 1
          /\ (Len(rl_log') = Len(rl_log) + 1 /\ Returning = {})
                => (rl_holder = NoCaller /\ rl_pc' = rl_pc)
          /\ Len(rl_ts') <= Len(rl_ts) + (Len(rl_log') - Len(rl_log))]_vars

\* C22 witness: a caller sleeps for the minimum delay with an acquisition
\* recorded before, while two other callers have called wait_if_needed and
\* queue for the lock.
C22_Witness ==
    /\ \E c \in Callers : rl_pc[c] = "sleep_delay" /\ rl_holder = c
    /\ Cardinality({c \in Callers : rl_pc[c] = "waiting"}) = 2
    /\ rl_log # <<>>

\* C22, the other wait: a caller sleeps for the window while another queues
C22_WindowSleeper ==
    /\ \E c \in Callers : rl_pc[c] = "sleep_window" /\ rl_holder = c
    /\ \E c \in Callers : rl_pc[c] = "waiting"

----------------------------------------------------------------------------
(* Claim about the termination of wait_if_needed *)

\* C23: every call of wait_if_needed returns, having recorded exactly one
\* timestamp, the time of its return: a call that finds the lock free and has
\* nothing to wait for records and returns at once, every caller that queues
\* for the lock or sleeps inside it eventually returns, and its return appends
\* one timestamp; assuming that every sleep ends and that every caller queued
\* for the lock gets it.
C23_EveryCallReturns ==
    /\ \A c \in Callers : (rl_pc[c] # "idle") ~> (rl_pc[c] = "idle")
    /\ [][/\ \A c \in Returning : rl_log' = Append(rl_log, clock')
          /\ \A c \in Callers :
                (/\ RlCall(c)
                 /\ rl_holder = NoCaller
                 /\ DelaySleep(rl_last, clock) = 0
                 /\ ~AtLimit(Purge(rl_ts, clock)))
                => (rl_log' = Append(rl_log, clock) /\ rl_pc'[c] = "idle")]_vars

\* C23 witness: all three callers are inside wait_if_needed at once, one
\* asleep and two queued for the lock, with an acquisition recorded before.
C23_Witness ==
    /\ \A c \in Callers : rl_pc[c] # "idle"
    /\ InSection # {}
    /\ Len(rl_log) >= 1

\* C23, the end of such a run: every caller is back with four timestamps
\* recorded
C23_AllReturned ==
    /\ \A c \in Callers : rl_pc[c] = "idle"
    /\ Len(rl_log) = MaxAcquire

----------------------------------------------------------------------------
(* Claim about the rate limiter in the retry loops *)

\* C24: in every fetch of a target's posts or of a post's comments, each
\* connector attempt, the first and every retry, comes after its own
\* rate-limiter acquisition has returned: a connector call is made only when
\* the loop has made one acquisition more than it has made attempts, while a
\* loop runs its acquisitions are its attempts or one more, and a loop that
\* has ended made as many acquisitions as attempts.
C24_AcquisitionPerAttempt ==
    /\ [](f_acq \in {f_att, f_att + 1})
    /\ [](f_last.acquired = f_last.attempts)
    /\ [][(f_att' = f_att + 1 \/ f_log' # f_log \/ f_clog' # f_clog)
             => f_acq = f_att + 1]_vars

\* C24 witness: a comment fetch has ended at its third attempt after two
\* transient errors, with three acquisitions, and the next post's fetch has
\* made its acquisition and no attempt yet.
C24_Witness ==
    /\ f_last.kind = "comments"
    /\ f_last.outcomes = <<"transient", "transient", "ok">>
    /\ f_last.acquired = 3
    /\ f_pc = "comments"
    /\ f_acq = 1 /\ f_att = 0

----------------------------------------------------------------------------
(* Claim about a target that succeeds after transient errors *)

\* the last n elements of q
Suffix(q, n) == SubSeq(q, Len(q) - n + 1, Len(q))

\* no failure is recorded in the metrics m
NoFailure(m) ==
    /\ m.subreddits_failed = 0
    /\ m.posts_failed = 0
    /\ m.comments_failed = 0
    /\ m.errors = <<>>

\* the fetch of a target's posts that ended last succeeded after k transient
\* errors, 0 < k < RetryAttempts
RetriedSuccess ==
    /\ f_last.kind = "posts"
    /\ ~f_last.failed
    /\ f_last.attempts > 1

\* C25: a target whose connector raises a transient error k times, k < N, and
\* then succeeds is not given up on (a fetch that ends on a transient error has
\* made N attempts) and contributes every item of the successful attempt: the
\* items are the last ones of the result when its fetch ends, the result is at
\* all times the items of the targets that succeeded, in order, and no failure
\* is recorded for it, neither in the record emitted for it nor in the one
\* being filled; with targets [a, b], 5 items for a and 3 items for b, the run
\* returns 8 items and its two records hold no failure.
C25_RetrySuccessContributes ==
    /\ (f_last.failed /\ f_last.transient_only) => f_last.attempts = RetryAttempts
    /\ all_posts = PostsOfSucceeded(f_log)
    /\ (RetriedSuccess /\ f_pc \in {"posts", "done"}) =>
          /\ f_last.attempts <= RetryAttempts
          /\ \A k \in 1..(f_last.attempts - 1) : f_last.outcomes[k] = "transient"
          /\ f_log[Len(f_log)].sub = f_last.subject.sub
          /\ ~f_log[Len(f_log)].failed
          /\ Suffix(all_posts, Len(f_log[Len(f_log)].got)) = f_log[Len(f_log)].got
          /\ f_recorded[Len(f_recorded)].subreddit = f_last.subject.sub
          /\ f_recorded[Len(f_recorded)].posts_scraped = Len(f_log[Len(f_log)].got)
    /\ \A k \in 1..Len(f_recorded) : NoFailure(f_recorded[k])
    /\ NoFailure(f_metrics)
    /\ (/\ f_pc = "done"
        /\ Len(f_log) = 2
        /\ ~f_log[1].failed /\ Len(f_log[1].got) = 5
        /\ ~f_log[2].failed /\ Len(f_log[2].got) = 3)
       => /\ Len(all_posts) = 8
          /\ Len(f_recorded) = 2

\* C25 witness: the call for targets [a, b] has returned; a gave 5 items, b
\* raised two transient errors and then gave 3 items; 8 items are returned
\* and the two records hold no failure.
C25_Witness ==
    /\ f_pc = "done"
    /\ f_cfg = <<"a", "b">>
    /\ [k \in 1..Len(f_log) |-> f_log[k].sub] = <<"a", "b">>
    /\ Len(f_log[1].got) = 5
    /\ f_last.kind = "posts"
    /\ f_last.outcomes = <<"transient", "transient", "ok">>
    /\ Len(f_log[2].got) = 3
    /\ Len(all_posts) = 8
    /\ Len(f_recorded) = 2
    /\ \A k \in 1..2 : NoFailure(f_recorded[k]) /\ f_recorded[k].subreddits_succeeded = 1

----------------------------------------------------------------------------
(* Claim about marking a key that is already recorded *)

\* C26, as stated: mark_content_scraped completes without error whenever the
\* key is already recorded when it commits, the case of two callers that mark
\* the same new key concurrently after each has seen it absent included: no
\* call ends by raising.
C26_MarkNeverRaises ==
    \A c \in Markers : m_ret[c] # "raised"

\* C26, the part that holds: a call whose query finds the record of the key
\* updates it and returns
C26_RemarkReturns ==
    [][\A c \in Markers :
          (MarkCommit(c) /\ m_arg[c].existing) => m_ret'[c] = "returned"]_vars


----------------------------------------------------------------------------
(* Claim about a candidate whose analysis or persistence fails *)

\* the run at hand is one of the runs with failures
FailingRun == p_run.s # NoSearch

\* the candidates of the run that are leads and that no failure is about
Unaffected ==
    {p_run.handed[k].source_id :
        k \in {k \in 1..Len(p_run.handed) :
                  /\ p_run.handed[k].valid
                  /\ p_run.handed[k].source_id \notin p_run.broken
                  /\ p_run.handed[k].source_id \notin p_run.bad}}

\* the leads the run reports
Reported == {p_run.result.leads[k] : k \in 1..Len(p_run.result.leads)}

\* the leads the run stored
StoredByRun == {p_run.stored[k] : k \in 1..Len(p_run.stored)}

\* C27: when analysis or persistence fails for one candidate of a run, the
\* other candidates of the run are still analyzed and persisted (their lead
\* is stored and their key is in the ledger), and the run reports the leads
\* it stored before the failure.
C27_SiblingsSurvive ==
    FailingRun =>
        /\ \A id \in Unaffected :
              /\ [search |-> p_run.s, source_id |-> id] \in leads
              /\ Existing(ledger, p_run.s, "reddit", id) # {}
        /\ StoredByRun \subseteq Reported
        /\ p_run.result.leads_created = Len(p_run.stored)

\* the half of C27 that holds: a candidate whose analysis fails is skipped,
\* the others are stored, marked and reported, when no persistence call fails
C27_AnalysisFailureIsolated ==
    (FailingRun /\ p_run.result.status = "success") =>
        /\ \A id \in Unaffected :
              /\ [search |-> p_run.s, source_id |-> id] \in leads
              /\ Existing(ledger, p_run.s, "reddit", id) # {}
              /\ id \in Reported
        /\ StoredByRun = Reported

\* a run with an analysis failure for one candidate and a sibling stored
C27_AnalysisFailureSeen ==
    /\ FailingRun
    /\ p_run.result.status = "success"
    /\ \E k \in 1..Len(p_run.handed) :
          p_run.handed[k].valid /\ p_run.handed[k].source_id \in p_run.broken
    /\ Unaffected # {}


----------------------------------------------------------------------------
(* Claim about the retention of finished jobs *)

Terminal(s) == active_jobs[s].status \in {"completed", "failed"}

\* a cleanup task of the search is pending and due within the retention window
CleanupPending(s) ==
    \E c \in cleanups : c.s = s /\ c.at <= now + CleanupDelay

\* C28: every job in a terminal state, set by complete_job or by the timeout
\* of is_job_running, is removed from the job table within the retention
\* window unless a new job replaces it: a job in a terminal state has a
\* cleanup task that is due at most 300 s later, and when the task runs the
\* job is absent or is a job started since.
C28_TerminalJobsReaped ==
    /\ [](\A s \in HarnessSearches : Terminal(s) => CleanupPending(s))
    /\ [][\A c \in cleanups \ cleanups' :
             active_jobs'[c.s].status \in {"absent", "running"}]_vars

\* the half of C28 that holds: a terminal job without a cleanup task is one
\* the timeout of is_job_running marked as failed
C28_CompletedJobsReaped ==
    /\ [](\A s \in HarnessSearches :
             (Terminal(s) /\ ~CleanupPending(s)) =>
                 /\ active_jobs[s].status = "failed"
                 /\ active_jobs[s].error = "timeout")
    /\ [][\A c \in cleanups \ cleanups' :
             active_jobs'[c.s].status \in {"absent", "running"}]_vars


----------------------------------------------------------------------------
(* Claim about the dedup filter and the analysis of a run *)

\* the search whose run ends in this step
Ending(s) == p_pc[s] = "fetching" /\ p_pc'[s] = "idle"

\* the keys of the candidates the run handed to analyze_leads
HandedKeys(run) ==
    {<<run.handed[k].source, run.handed[k].source_id>> : k \in 1..Len(run.handed)}

\* the keys of the items the dedup filter of the run returned
FreshKeys(run) ==
    {<<ItemSource(run.fresh[k]), ItemSourceId(run.fresh[k])>> : k \in 1..Len(run.fresh)}

\* C29: in a pipeline run the dedup filter comes before the analysis (the
\* candidates handed to analysis are among the items the filter returned),
\* and no item whose (search, source, id) key is in the ledger when the
\* filter runs is handed to analysis.
C29_FilterBeforeAnalysis ==
    [][\A s \in Searches :
          Ending(s) =>
             /\ HandedKeys(p_run') \subseteq FreshKeys(p_run')
             /\ HandedKeys(p_run') \cap ScrapedIds(ledger, s) = {}
             /\ \A k \in 1..Len(p_run'.fetched) :
                   <<ItemSource(p_run'.fetched[k]), ItemSourceId(p_run'.fetched[k])>>
                       \in ScrapedIds(ledger, s)
                   => p_run'.fetched[k] \notin Range(p_run'.fresh)]_vars

\* a run whose fetch returned an item recorded by an earlier run, which the
\* filter dropped, and a new item, which was handed to analysis
C29_Witness ==
    /\ p_run.s # NoSearch
    /\ \E k \in 1..Len(p_run.fetched) :
          /\ p_run.fetched[k] \notin Range(p_run.fresh)
          /\ p_run.fetched[k].relevant
          /\ p_run.fetched[k].valid
    /\ p_run.handed # <<>>


----------------------------------------------------------------------------
(* Claim about the next run of a scheduled search *)

\* the interval a search is configured with, in seconds
Configured(interval) ==
    CASE interval = "30m" -> 30 * SecondsPerMinute
      [] interval = "1h" -> 60 * SecondsPerMinute
      [] interval = "6h" -> 6 * 60 * SecondsPerMinute
      [] interval = "24h" -> 24 * 60 * SecondsPerMinute

\* the scheduler has processed the search
Processed(row) == row.mode = "scheduled" /\ row.last_scrape_at # None

\* C30: when the scheduler is done with a due scheduled search (the pipeline
\* returned and mark_scraped was called), the stored search has its last run
\* at that time and its next run one configured interval (30m, 1h, 6h, 24h)
\* later; and a search that was processed is not selected by the due query
\* before its interval has elapsed since the last run.
C30_NextRunAfterInterval ==
    /\ [][(pc["tick"] = "closing" /\ pc'["tick"] # "closing") =>
             /\ db'[cur["tick"]].last_scrape_at = now
             /\ db'[cur["tick"]].next_scrape_at =
                   now + Configured(db'[cur["tick"]].interval)]_vars
    /\ [](\A s \in Searches :
             Processed(db[s]) =>
                /\ db[s].next_scrape_at =
                      db[s].last_scrape_at + Configured(db[s].interval)
                /\ IsDue(db[s], now) =>
                      now >= db[s].last_scrape_at + Configured(db[s].interval))

\* a search with the interval of 24 hours that the scheduler processed, one
\* second before its next run: it is not due, a search of a shorter interval
\* that was processed with it is due again
C30_Witness ==
    /\ pc["tick"] = "idle"
    /\ \E s \in Searches :
          /\ Processed(db[s])
          /\ db[s].interval = "24h"
          /\ now = db[s].next_scrape_at - 1
          /\ ~IsDue(db[s], now)
    /\ \E s \in Searches :
          /\ Processed(db[s])
          /\ db[s].interval # "24h"
          /\ IsDue(db[s], now)


----------------------------------------------------------------------------
(* Claim about overlapping scheduler ticks *)

\* C31: at most one execution of process_due_searches is in progress at any
\* time: a firing of the trigger that comes while the previous tick is still
\* processing starts no second tick, so no two ticks run a pipeline at once
\* and no search is processed by two ticks at once.
C31_OneTickAtATime ==
    /\ \A i, j \in Running(k_inst) : i = j
    /\ \A i, j \in Running(k_inst) : k_inst[i].cur = k_inst[j].cur => i = j

\* the trigger fired while a tick was awaiting a pipeline, and the firing was
\* skipped
C31_Witness ==
    /\ k_last = "skipped"
    /\ Running(k_inst) # {}
    /\ \E i \in Running(k_inst) : active_jobs[k_inst[i].cur].status = "running"


----------------------------------------------------------------------------
(* Claim about the searches a tick starts *)

\* the searches of the rest of the tick's list
Listed(lst) == {lst[n].s : n \in 1..Len(lst)}

\* the searches whose job the step changes
Touched == {s \in Searches : active_jobs'[s] # active_jobs[s]}

\* enabled, scheduled, and next run at t or before
Selectable(row, t) ==
    /\ row.enabled
    /\ row.mode = "scheduled"
    /\ row.next_scrape_at # None
    /\ ~(row.next_scrape_at > t)

\* a step of the tick that is not the run of a cleanup task
TickStep == pc'["tick"] # pc["tick"] \/ cur'["tick"] # cur["tick"] \/ due' # due

\* C32: a tick attempts jobs only for searches that, at its due query, are
\* enabled, in scheduled mode and have next run <= now: the tick's list holds
\* such searches only, and the tick checks, starts and runs no other search.
C32_OnlyDueSearchesStarted ==
    [][TickStep =>
          IF pc["tick"] = "idle"
          THEN /\ \A s \in Touched \cup Listed(due') \cup ({cur'["tick"]} \ {NoSearch}) :
                     Selectable(db[s], now)
               /\ \A s \in Searches :
                     ~Selectable(db[s], now) => active_jobs'[s] = active_jobs[s]
          ELSE /\ Touched \subseteq Listed(due) \cup {cur["tick"]}
               /\ Listed(due') \cup ({cur'["tick"]} \ {NoSearch}) \subseteq Listed(due)
                     \cup {cur["tick"]}]_vars

\* a tick runs a search whose next run is exactly now, later than the start,
\* beside a search that is disabled or one_time and has no job
C32_Witness ==
    /\ pc["tick"] = "run"
    /\ now > 0
    /\ snap["tick"].next_scrape_at = now
    /\ runstart["tick"] = now
    /\ active_jobs[cur["tick"]].status = "running"
    /\ \E s \in Searches : /\ ~db[s].enabled \/ db[s].mode # "scheduled"
                           /\ active_jobs[s] = NoJob


----------------------------------------------------------------------------
(* Claim about the leads of one key *)

\* the last step was a save_lead call
Saved == l_ops > 0

----------------------------------------------------------------------------
(* Claim about the targets of a fetch *)

\* the targets the fetch has fetched and the targets it has recorded metrics
\* for, in order
FetchedTargets == [k \in 1..Len(f_log) |-> f_log[k].sub]
RecordedTargets == [k \in 1..Len(f_recorded) |-> f_recorded[k].subreddit]

\* the targets the configuration asks for
AskedTargets == IF Len(f_cfg) = 0 THEN <<"all">> ELSE f_cfg

\* C34: with an empty (or missing) target list the orchestrator fetches the
\* one pseudo-target "all", in one target attempt (one fetch of the target,
\* retried inside as the retry policy says, and one metrics record); with a
\* non-empty list it fetches the listed targets, each once, in list order.
C34_TargetsFetched ==
    /\ f_pc # "idle" =>
          /\ Len(FetchedTargets) <= Len(AskedTargets)
          /\ FetchedTargets = SubSeq(AskedTargets, 1, Len(FetchedTargets))
          /\ Len(RecordedTargets) <= Len(FetchedTargets)
          /\ RecordedTargets = SubSeq(AskedTargets, 1, Len(RecordedTargets))
    /\ f_pc = "done" =>
          /\ FetchedTargets = AskedTargets
          /\ RecordedTargets = AskedTargets

\* a fetch with an empty target list that returned: "all" was fetched, with
\* posts, and recorded once
C34_Witness ==
    /\ f_pc = "done"
    /\ f_cfg = <<>>
    /\ FetchedTargets = <<"all">>
    /\ RecordedTargets = <<"all">>
    /\ f_log[1].got # <<>>
    /\ all_posts = f_log[1].got


----------------------------------------------------------------------------
(* Claim about a late complete_job *)

\* the run of p ends in this step: its mark_scraped and complete_job are called
RunEnds(p) == pc[p] = "closing" /\ pc'[p] # "closing"

\* q runs a newer job of the search p has run
NewerRun(q, p) ==
    /\ q # p
    /\ pc[q] \in {"run", "closing"}
    /\ cur[q] = cur[p]
    /\ runstart[q] > runstart[p]
    /\ active_jobs[cur[q]].status = "running"
    /\ active_jobs[cur[q]].started_at = runstart[q]

\* C35: a complete_job issued by a run changes only the job that run started:
\* when that job was reaped as stale and a newer job of the search is running,
\* the complete_job of the old run leaves the newer job running.
C35_LateCompleteLeavesNewJob ==
    [][\A p, q \in Procs :
          (RunEnds(p) /\ NewerRun(q, p)) => active_jobs'[cur[q]] = active_jobs[cur[q]]]_vars

\* the case is reached: a run is about to end while a newer job of its search,
\* started after the old one timed out, is running
C35_LateRunSeen ==
    \E p, q \in Procs : pc[p] = "closing" /\ NewerRun(q, p)

----------------------------------------------------------------------------
\* a step in which the run of process p ends
RunOver(p) == pc[p] = "closing" /\ pc'[p] = "idle"

\* C36: a scheduler-driven or trigger-driven run changes only the run-tracking
\* fields of the stored search: when a run during which no update_search was
\* made ends, enabled, mode, interval, webhook_url and reddit_config of the
\* row are what they were when the run began.
C36_RunKeepsUserFields ==
    [][\A p \in Procs :
          RunOver(p) /\ ret = NoRet
              => UserFields(db'[cur[p]]) = UserFields(snap[p])]_vars

\* the part of C36 that holds: enabled, mode and interval are kept
C36_SchedulingFieldsKept ==
    [][\A p \in Procs :
          RunOver(p) /\ ret = NoRet
              => /\ db'[cur[p]].enabled = snap[p].enabled
                 /\ db'[cur[p]].mode = snap[p].mode
                 /\ db'[cur[p]].interval = snap[p].interval]_vars

\* the update made last during the run of p is in effect in the rows
InEffect(rows, s) ==
    IF ret.val = "enabled" THEN ~rows[s].enabled ELSE rows[s].interval = "1h"

\* C37: an update made through update_search while a run of the search is in
\* progress is still in effect when the run has completed.
C37_UpdateSurvivesRun ==
    [][\A p \in Procs :
          RunOver(p) /\ ret.op = "update_search" /\ ret.s = cur[p]
              => InEffect(db', cur[p])]_vars

\* the part of C37 that holds: the update survives a run whose pipeline failed
C37_UpdateSurvivesFailedRun ==
    [][\A p \in Procs :
          RunOver(p) /\ ret.op = "update_search" /\ ret.s = cur[p]
                     /\ result[p] = "error"
              => InEffect(db', cur[p])]_vars

----------------------------------------------------------------------------
\* C38: a started job never blocks its search forever: whenever a job of a
\* search is running, the tick or trigger that runs it reaches complete_job on
\* each of its exit paths (or the job has timed out), so that later
\* is_job_running of the search is false and start_job would succeed.
C38_StartedJobEnds ==
    \A s \in Searches :
        IsJobRunning(active_jobs, s, now) ~> StartJob(active_jobs, s, now)

\* a job that was started has been completed as failed, every process has
\* returned, and start_job of the search would succeed
C38_Witness ==
    \E s \in Searches :
        /\ active_jobs[s].status = "failed"
        /\ \A p \in Procs : pc[p] = "idle"
        /\ StartJob(active_jobs, s, now)

----------------------------------------------------------------------------
\* C39: the delayed cleanup never removes a job that is running or starting:
\* in a step in which a cleanup task fires, the entry of every search whose
\* job is running or starting is left as it is, and is_job_running stays true
\* for it.
C39_CleanupKeepsRunningJob ==
    [][\A c \in cleanups :
          c \notin cleanups'
              => \A s \in Searches :
                    active_jobs[s].status \in {"running", "starting"}
                        => /\ active_jobs'[s] = active_jobs[s]
                           /\ IsJobRunning(active_jobs, s, now)
                                 => IsJobRunning(active_jobs', s, now')]_vars

\* the sleep of the cleanup of an earlier job of a search is over, and it is
\* about to fire, while a job of the search that was started before that is running
C39_Witness ==
    \E c \in cleanups :
        /\ now >= c.at
        /\ active_jobs[c.s].status = "running"
        /\ active_jobs[c.s].started_at < c.at
        /\ IsJobRunning(active_jobs, c.s, now)

----------------------------------------------------------------------------
\* the ledger entries of search s
EntriesOf(led, s) == {e \in led : e.search = s}

\* out lists elements of items in the order items lists them
SubList(out, items) ==
    \E f \in [1..Len(out) -> 1..Len(items)] :
        /\ \A i \in 1..Len(out) : out[i] = items[f[i]]
        /\ \A i, j \in 1..Len(out) : i < j => f[i] < f[j]

\* what filter_already_scraped returns for search s depends on the entries of
\* s only, and is an order-preserving sub-list of the items
OwnEntriesOnly ==
    \A s \in Searches, items \in LedgerLists :
        /\ FilterAlreadyScraped(ledger, s, items)
              = FilterAlreadyScraped(EntriesOf(ledger, s), s, items)
        /\ SubList(FilterAlreadyScraped(ledger, s, items), items)

\* a step that changes the entries of other searches only leaves what
\* filter_already_scraped returns for search s as it was
OtherSearchesApart ==
    ledger' # ledger
        => \A s \in Searches :
              EntriesOf(ledger', s) = EntriesOf(ledger, s)
                  => \A items \in LedgerLists :
                        FilterAlreadyScraped(ledger', s, items)
                            = FilterAlreadyScraped(ledger, s, items)

\* C40: ledger entries of one search never affect another search: marking
\* (A, source, id) never makes filter_already_scraped for a search B # A drop an
\* item of that source and id; the result of filter for a search depends only
\* on that search's entries and is an order-preserving sub-list of the input.
C40_LedgerPerSearch == []OwnEntriesOnly /\ [][OtherSearchesApart]_vars

\* the last ledger call was a filter for a search that returned an item whose
\* source and id another search has an entry for
C40_Witness ==
    /\ l_ret.n = l_ops
    /\ l_ret.s \in Searches
    /\ \E item \in Range(l_ret.out) :
          \E e \in ledger : /\ e.search # l_ret.s
                            /\ e.source = ItemSource(item)
                            /\ e.source_id = ItemSourceId(item)
    /\ Len(l_ret.out) = MaxItems

====
